---- MODULE Spec2Model ----
(***************************************************************************)
(* ImpleForge: the asynchronous workers (CommandWorker, DataPumpWorker,    *)
(* DBOpsWorker, DBTestWorker, SQLWorker) and the callers' worker slots.    *)
(*                                                                         *)
(* One worker instance runs on its own thread (run), while the caller's    *)
(* thread may call stop() on it.  Every statement of run() and stop() that *)
(* reads or writes shared state (_is_running, _process, the child) is one  *)
(* step, so every interleaving of the two threads is a behaviour.          *)
(***************************************************************************)
EXTENDS Integers, Sequences, FiniteSets, TLC

VARIABLES
  kind,        \* the worker's class
  req,         \* what the worker was constructed with, and what the environment will do
  pc,          \* position of the worker thread in run()
  isRunning,   \* self._is_running
  process,     \* self._process: "None" or "Popen"
  returncode,  \* Popen.returncode: <<>> is None, <<c>> is the collected status c
  childState,  \* the OS child: "none", "alive", "exited"
  childStatus, \* the exit status the OS holds for the child
  toWrite,     \* lines the child has still to write
  pipe,        \* lines written by the child and not yet read
  exc,         \* the exception in flight in run(), "none" if none
  result,      \* the (result, metadata) pair run() holds, <<>> if none
  netAttempts, \* engines/clients created and connections attempted
  openHandles, \* database clients/connections open
  spc,         \* position of the caller's thread in stop()
  stopCalls,   \* number of stop() calls made
  stopMark,    \* <<[n, at]>>: the first stop() came after n events, with run() at "at"
  escaped,     \* where an exception left the worker: subset of {"run", "stop"}
  events,      \* the signals emitted by the current run, in order
  runs,        \* how many times run() was entered on this instance
  \* a widget's worker slot (self.sql_worker, self.db_worker, self.test_worker)
  wpc,         \* position of each worker the widget has created in its run()
  wflag,       \* each worker's _is_running
  cur,         \* the worker the slot's attribute refers to, 0 for None
  uiExecuting, \* the start button is disabled (_set_executing_state(True))
  uipc,        \* position of the interface thread in the start handler
  queue,       \* signals emitted by the workers, not yet delivered to the interface thread
  \* a DataPumpWorker from its construction to its invocation line
  args,        \* the arguments of DataPumpWorker(...)
  ppc,         \* "none", "new", "rejected", "constructed", "built", "announced"
  operation,   \* self.operation
  cmd,         \* cmd_parts, the argument vector of _build_command
  shown,       \* the invocation line emitted as a progress event
  onPath,      \* the data pump executables shutil.which finds
  ready,       \* what check_oracle_client returned, <<>> before the call
  \* one connection profile, as the probe and as the operation worker use it
  cprofile,    \* the stored profile
  probeTarget, \* the target the probe connects to, <<>> before it is derived
  workerTarget,\* the target the operation worker connects to
  \* a ScriptWorker under construction
  sargs,       \* the arguments of ScriptWorker(...) and whether the path exists
  sstate,      \* "none", "constructed", or the exception __init__ raised
  scommand,    \* the command and shell fields of the constructed worker
  \* the operations dashboard and the buttons clicked on it
  dbType,      \* self.current_db_type, <<>> before a connection is selected
  clicks,      \* the operation buttons clicked so far, each with what the click did
  \* a ConnectionManager
  profiles,    \* self._profiles, <<>> as a variable before the manager exists
  uuids,       \* how many ids uuid.uuid4() has generated
  calls        \* the save_profile and delete_profile calls so far

workerVars == <<kind, req, pc, isRunning, process, returncode, childState, childStatus,
                toWrite, pipe, exc, result, netAttempts, openHandles, spc, stopCalls,
                stopMark, escaped, events, runs>>
slotVars == <<wpc, wflag, cur, uiExecuting, uipc, queue>>
pumpVars == <<args, ppc, operation, cmd, shown, onPath, ready>>
connVars == <<cprofile, probeTarget, workerTarget>>
scriptVars == <<sargs, sstate, scommand>>
dashVars == <<dbType, clicks>>
storeVars == <<profiles, uuids, calls>>
extVars == <<pumpVars, connVars, scriptVars, dashVars, storeVars>>
vars == <<workerVars, slotVars, extVars>>

----------------------------------------------------------------------------
(* Bounds *)

MaxLines == 2
MaxStops == 1
\* times one instance is started
MaxRuns == 2
\* additional parameters of one data pump invocation
MaxParams == 2
\* workers one widget creates in a behaviour
MaxWorkers == 3

----------------------------------------------------------------------------
(* Values *)

None == <<>>
Some(x) == <<x>>

ProcessKinds == {"CommandWorker", "DataPumpWorker"}
DbKinds == {"DBOpsWorker", "DBTestWorker", "SQLWorker"}

\* finished_signal.emit(-1) / finished_signal.emit(-1, False)
Sentinel == 0 - 1
\* returncode of a child ended by terminate() / kill(): minus the signal number
TermStatus == 0 - 15
KillStatus == 0 - 9
\* exit status of the shell when the command is not found / not executable
ShNotFound == 127
ShNoPerm == 126

Ev(t, a, b) == [t |-> t, a |-> a, b |-> b]

\* what the child writes at once: one line with its terminator
LineAlphabet == {"x\n", "\r\n", " y\n", " \n"}

RECURSIVE SeqsUpTo(_, _)
SeqsUpTo(S, n) ==
  IF n = 0 THEN {<<>>}
  ELSE LET shorter == SeqsUpTo(S, n - 1)
       IN shorter \cup {Append(s, x) : s \in {q \in shorter : Len(q) = n - 1}, x \in S}

Scripts == SeqsUpTo(LineAlphabet, MaxLines)

----------------------------------------------------------------------------
(* str methods *)

Ch(s, i) == SubSeq(s, i, i)

\* the characters str.strip() removes
Whitespace == {" ", "\t", "\n", "\r"}

RECURSIVE RStrip(_, _)
\* s.rstrip(chars)
RStrip(s, chars) ==
  IF s = "" THEN s
  ELSE IF Ch(s, Len(s)) \in chars THEN RStrip(SubSeq(s, 1, Len(s) - 1), chars)
  ELSE s

RECURSIVE LStrip(_, _)
\* s.lstrip(chars)
LStrip(s, chars) ==
  IF s = "" THEN s
  ELSE IF Ch(s, 1) \in chars THEN LStrip(SubSeq(s, 2, Len(s)), chars)
  ELSE s

\* s.strip()
Strip(s) == LStrip(RStrip(s, Whitespace), Whitespace)

\* s.find(sub, from): the first index >= from where sub starts, 0 if none
Find(s, sub, from) ==
  LET hits == {i \in from..(Len(s) - Len(sub) + 1) : SubSeq(s, i, i + Len(sub) - 1) = sub}
  IN IF hits = {} THEN 0 ELSE CHOOSE i \in hits : \A j \in hits : i <= j

\* sub in s
Contains(s, sub) == Find(s, sub, 1) # 0

RECURSIVE Split(_, _)
\* s.split(sep)
Split(s, sep) ==
  LET i == Find(s, sep, 1)
  IN IF i = 0 THEN <<s>>
     ELSE <<SubSeq(s, 1, i - 1)>> \o Split(SubSeq(s, i + Len(sep), Len(s)), sep)

RECURSIVE Replace(_, _, _)
\* s.replace(old, new), old not empty
Replace(s, old, new) ==
  LET i == Find(s, old, 1)
  IN IF i = 0 THEN s
     ELSE SubSeq(s, 1, i - 1) \o new \o Replace(SubSeq(s, i + Len(old), Len(s)), old, new)

RECURSIVE Concat(_)
\* the bytes of a sequence of chunks
Concat(chunks) == IF chunks = <<>> THEN "" ELSE Head(chunks) \o Concat(Tail(chunks))

----------------------------------------------------------------------------
(* subprocess.Popen *)

\* What Popen(command, shell=shell, cwd=cwd) does: with shell=True the child
\* is the shell, which exists whatever the command is.
SpawnOutcome(r) ==
  IF ~r.cwdOk THEN "FileNotFoundError"
  ELSE IF r.shell THEN "spawned"
  ELSE CASE r.exe = "missing" -> "FileNotFoundError"
         [] r.exe = "noperm" -> "PermissionError"
         [] r.exe = "badarg" -> "OSError"
         [] OTHER -> "spawned"

\* The requests of a process worker: the command's own behaviour matters only
\* when the command itself is what runs.
RunnableReqs(shells) ==
  [shell : shells, exe : {"ok"}, cwdOk : {TRUE}, script : Scripts,
   selfExit : {None, Some(0), Some(2)}, ignoresTerm : BOOLEAN]

ShellWrappedReqs ==
  [shell : {TRUE}, exe : {"missing"}, cwdOk : {TRUE}, script : {<<"x\n">>},
   selfExit : {Some(ShNotFound)}, ignoresTerm : {FALSE}]
  \cup
  [shell : {TRUE}, exe : {"noperm"}, cwdOk : {TRUE}, script : {<<"x\n">>},
   selfExit : {Some(ShNoPerm)}, ignoresTerm : {FALSE}]

FailingReqs(shells) ==
  [shell : shells, exe : {"ok"}, cwdOk : {FALSE}, script : {<<>>},
   selfExit : {None}, ignoresTerm : {FALSE}]
  \cup
  [shell : {FALSE} \cap shells, exe : {"missing", "noperm", "badarg"}, cwdOk : {TRUE},
   script : {<<>>}, selfExit : {None}, ignoresTerm : {FALSE}]

\* CommandWorker(command, cwd, shell=True); DataPumpWorker passes an argument
\* list to Popen and no shell.
CommandReqs == RunnableReqs(BOOLEAN) \cup ShellWrappedReqs \cup FailingReqs(BOOLEAN)
DataPumpReqs == RunnableReqs({FALSE}) \cup FailingReqs({FALSE})

----------------------------------------------------------------------------
(* Requests of the database workers *)

SupportedFamilies == {"mysql", "mariadb", "sqlserver", "oracle", "mongodb"}
\* family tags found in profiles that are none of the five
UnsupportedFamilies == {"postgresql", "redis"}
Families == SupportedFamilies \cup UnsupportedFamilies

\* a cell of a result row: None is SQL NULL, Some(s) a value whose str() is s
RECURSIVE Repeat(_, _)
\* s * n
Repeat(s, n) ==
  IF n = 0 THEN ""
  ELSE IF n % 2 = 0 THEN LET h == Repeat(s, n \div 2) IN h \o h
  ELSE s \o Repeat(s, n - 1)

\* cell values of 1000 and of 1001 characters, distinct around the cut
LongCells == <<Repeat("x", 996) \o "abcd", Repeat("x", 996) \o "abcde">>

RowSets ==
  { <<>>,
    << <<Some("A")>>, <<Some("B")>> >>,
    << <<None, Some("A")>> >>,
    << <<Some(LongCells[1]), Some(LongCells[2])>> >> }

\* substrings that _parse_error looks for in the lowered diagnostic
Diags == { {}, {"timeout"}, {"access denied"} }

Backend(o, rowcount, rows, marks) ==
  [o |-> o, rowcount |-> rowcount, rows |-> rows, marks |-> marks]

\* what the backend does with the statement once it is reached
SqlBackends ==
  {Backend("noresult", 1, <<>>, {})}
  \cup {Backend("rows", 0, rows, {}) : rows \in RowSets}
  \cup {Backend("error", 0, <<>>, m) : m \in Diags}

MongoBackends ==
  {Backend("doc", 2, <<>>, {})} \cup {Backend("error", 0, <<>>, m) : m \in Diags}

Unreached == Backend("unreached", 0, <<>>, {})

Profile(family) ==
  [db_type |-> family, host |-> "h", port |-> 1, username |-> "u",
   password |-> "p@ss", database |-> "db1"]

DbReq(family, resultType, sqlText, deps, backend) ==
  [profile |-> Profile(family), resultType |-> resultType, sqlText |-> sqlText,
   deps |-> deps, backend |-> backend]

\* DBOpsWorker(db_profile, operation, sql_text, result_type, timeout).
\* sql_text of a mongodb operation: a dict, a JSON string, or a string that is
\* no JSON (the empty string).  deps: the driver packages can be imported.
DBOpsReqs ==
  {DbReq(f, rt, "stmt", TRUE, b) :
     f \in SupportedFamilies \ {"mongodb"}, rt \in {"table", "text"}, b \in SqlBackends}
  \cup {DbReq("mongodb", "document", st, TRUE, b) : st \in {"dict", "json"}, b \in MongoBackends}
  \cup {DbReq("mongodb", "document", "", TRUE, Backend("doc", 2, <<>>, {}))}
  \cup {DbReq(f, rt, "stmt", TRUE, Unreached) :
     f \in UnsupportedFamilies, rt \in {"table", "text"}}
  \cup {DbReq("mysql", "table", "stmt", FALSE, Unreached)}

\* DBTestWorker(profile): the wizard's form data
ProbeProfile(family) ==
  [db_type |-> family, host |-> "h", port |-> 1, username |-> "u", password |-> "p@ss",
   database |-> IF family = "oracle" THEN "ORCL" ELSE "db1", auth_source |-> "admin",
   oracle_mode |-> IF family = "oracle" THEN "service_name" ELSE "",
   oracle_value |-> IF family = "oracle" THEN "ORCL" ELSE ""]

ProbeBackends ==
  {Backend("ok", 0, <<>>, {})} \cup {Backend("error", 0, <<>>, m) : m \in Diags}

DBTestReqs ==
  {[profile |-> ProbeProfile(f), deps |-> TRUE, backend |-> b] :
     f \in SupportedFamilies, b \in ProbeBackends}
  \cup {[profile |-> ProbeProfile("redis"), deps |-> TRUE, backend |-> b] : b \in ProbeBackends}
  \cup {[profile |-> ProbeProfile("postgresql"), deps |-> TRUE, backend |-> Unreached]}
  \cup {[profile |-> ProbeProfile(f), deps |-> FALSE, backend |-> Unreached] :
     f \in {"mysql", "mongodb"}}

\* SQLWorker(db_profile, sql_text): whether the statement is a query, whether
\* handling its result raises, whether the commit after it raises
SQLReqs ==
  {[profile |-> Profile(f), deps |-> TRUE, backend |-> b, isSelect |-> q,
    handleFails |-> hf, commitFails |-> cf] :
     f \in {"mysql", "oracle", "postgresql"},
     b \in {Backend("rows", 0, rows, {}) : rows \in RowSets}
           \cup {Backend("noresult", 1, <<>>, {})},
     q \in BOOLEAN, hf \in BOOLEAN, cf \in BOOLEAN}
  \cup {[profile |-> Profile(f), deps |-> TRUE, backend |-> Backend("error", 0, <<>>, m),
          isSelect |-> TRUE, handleFails |-> FALSE, commitFails |-> FALSE] :
     f \in {"mysql", "oracle", "postgresql"}, m \in Diags}
  \cup {[profile |-> Profile(f), deps |-> TRUE, backend |-> Unreached,
          isSelect |-> TRUE, handleFails |-> FALSE, commitFails |-> FALSE] :
     f \in {"mariadb", "sqlserver", "mongodb", "redis"}}
  \cup {[profile |-> Profile("mysql"), deps |-> FALSE, backend |-> Unreached,
          isSelect |-> TRUE, handleFails |-> FALSE, commitFails |-> FALSE]}

----------------------------------------------------------------------------
(* DBOpsWorker: pure parts *)

\* urllib.parse.quote_plus on the strings of the model
QuotePlus(s) == IF s = "p@ss" THEN "p%40ss" ELSE s

\* DBOpsWorker._build_connection_string: None for any other family
BuildConnectionString(profile) ==
  LET db_type == profile.db_type
      cred == [user |-> QuotePlus(profile.username), password |-> QuotePlus(profile.password),
               host |-> profile.host, port |-> profile.port]
  IN IF db_type = "mysql" \/ db_type = "mariadb"
       THEN Some([driver |-> "mysql+pymysql", cred |-> cred,
                  path |-> IF profile.database # "" THEN "/" \o profile.database ELSE ""])
     ELSE IF db_type = "oracle"
       THEN Some([driver |-> "oracle+oracledb", cred |-> cred,
                  path |-> "/?service_name=" \o
                           (IF profile.database # "" THEN profile.database ELSE "ORCL")])
     ELSE IF db_type = "sqlserver"
       THEN Some([driver |-> "mssql+pymssql", cred |-> cred,
                  path |-> IF profile.database # "" THEN "/" \o profile.database ELSE ""])
     ELSE None

\* an exception: its type, str(e), and which looked-for substrings str(e).lower() contains
\* state: "raised" until an except clause has caught it
Exc(type, text, marks) == [type |-> type, text |-> text, marks |-> marks, state |-> "raised"]
NoExc == [type |-> "none", text |-> "", marks |-> {}, state |-> "none"]
Caught(e) == [e EXCEPT !.state = "caught"]

\* raise ValueError(f"不支持的数据库类型: {db_type}")
UnsupportedError(family) ==
  Exc("ValueError", "unsupported db type: " \o family, {})

DriverError(marks) == Exc("DriverError", "driver diagnostic", marks)

Msg(cls, msg) == [cls |-> cls, msg |-> msg]

\* s[:n]
Prefix(s, n) == IF Len(s) > n THEN SubSeq(s, 1, n) ELSE s

\* original[:497] + "..." if len(original) > 500
TruncateOriginal(original) ==
  IF Len(original) > 500 THEN Prefix(original, 497) \o "..." ELSE original

\* the last return without its label
GenericMessageRaw(original) == TruncateOriginal(original)

\* return f"<label>:\\n{original}" after the cut to 500 (lines 329-333)
GenericMessage(original) == "exec error: " \o TruncateOriginal(original)

\* DBOpsWorker._parse_error: the first matching branch decides
ParseError(e, db_type) ==
  IF "timeout" \in e.marks THEN Msg("timeout", "connect timeout")
  ELSE IF "access denied" \in e.marks \/ "login failed" \in e.marks
    THEN Msg("auth", "auth failed: wrong user or password")
  ELSE IF "unknown host" \in e.marks \/ "could not connect" \in e.marks
    THEN Msg("connect", "cannot connect to server")
  ELSE IF "unknown database" \in e.marks \/ "database does not exist" \in e.marks
    THEN Msg("nodb", "database does not exist")
  ELSE IF db_type = "oracle" /\ "ora-00942" \in e.marks
    THEN Msg("ora-00942", "table or view does not exist")
  ELSE IF db_type = "oracle" /\ "ora-01031" \in e.marks
    THEN Msg("ora-01031", "insufficient privileges")
  ELSE IF db_type = "oracle" /\ "ora-01555" \in e.marks
    THEN Msg("ora-01555", "snapshot too old")
  ELSE IF db_type = "oracle" /\ "ora-00054" \in e.marks
    THEN Msg("ora-00054", "resource busy")
  ELSE IF db_type \in {"mysql", "mariadb"} /\ "syntax" \in e.marks
    THEN Msg("syntax", "SQL syntax error: " \o Prefix(e.text, 200))
  ELSE IF db_type \in {"mysql", "mariadb"} /\ "performance_schema" \in e.marks
    THEN Msg("perfschema", "performance schema not enabled")
  ELSE IF db_type = "sqlserver" /\ "invalid object name" \in e.marks
    THEN Msg("object", "object does not exist")
  ELSE Msg("generic", GenericMessage(e.text))

Payload(form, v) == [form |-> form, v |-> v]

\* str(c) if c is not None else <ifNull>
CellText(c, ifNull) == IF c = None THEN ifNull ELSE c[1]

RECURSIVE Join(_, _)
\* sep.join(parts)
Join(parts, sep) ==
  IF parts = <<>> THEN ""
  ELSE IF Len(parts) = 1 THEN parts[1]
  ELSE parts[1] \o sep \o Join(Tail(parts), sep)

\* _execute_sql, result_type == "text": one line per row
TextLine(row) ==
  IF Len(row) = 1 THEN CellText(row[1], "")
  ELSE Join([i \in 1..Len(row) |-> CellText(row[i], "NULL")], " | ")

\* a truncation that keeps the first 1000 characters and adds the marker
TruncateCellKeepBudget(str_val) ==
  IF Len(str_val) > 1000 THEN SubSeq(str_val, 1, 1000) \o "..." ELSE str_val

\* str_val[:997] + "..." when len(str_val) > 1000
TruncateCell(str_val) ==
  IF Len(str_val) > 1000 THEN SubSeq(str_val, 1, 997) \o "..." ELSE str_val

\* a table branch that shows NULL as the marker of the text branch
TableRowNullMarker(row) ==
  [i \in 1..Len(row) |-> IF row[i] = None THEN "NULL" ELSE TruncateCell(row[i][1])]

\* _execute_sql, table branch: one display string per cell
TableRow(row) ==
  [i \in 1..Len(row) |-> IF row[i] = None THEN "" ELSE TruncateCell(row[i][1])]

\* an _execute_sql whose text branch leaves metadata["row_count"] as initialised
ExecuteSqlResultNoCount(resultType, backend) ==
  IF backend.o = "noresult"
    THEN [payload |-> Payload("text", "ok, rows affected"), row_count |-> backend.rowcount]
  ELSE IF resultType = "text"
    THEN IF backend.rows = <<>>
           THEN [payload |-> Payload("text", "(no data)"), row_count |-> 0]
           ELSE [payload |-> Payload("text",
                    Join([i \in 1..Len(backend.rows) |-> TextLine(backend.rows[i])], "\n")),
                 row_count |-> 0]
  ELSE [payload |-> Payload("matrix", [i \in 1..Len(backend.rows) |-> TableRow(backend.rows[i])]),
        row_count |-> Len(backend.rows)]

\* DBOpsWorker._execute_sql from the result of connection.execute on:
\* the (result, metadata) pair it returns
ExecuteSqlResult(resultType, backend) ==
  IF backend.o = "noresult"
    THEN [payload |-> Payload("text", "ok, rows affected"), row_count |-> backend.rowcount]
  ELSE IF resultType = "text"
    THEN IF backend.rows = <<>>
           THEN [payload |-> Payload("text", "(no data)"), row_count |-> 0]
           ELSE [payload |-> Payload("text",
                    Join([i \in 1..Len(backend.rows) |-> TextLine(backend.rows[i])], "\n")),
                 row_count |-> Len(backend.rows)]
  ELSE [payload |-> Payload("matrix", [i \in 1..Len(backend.rows) |-> TableRow(backend.rows[i])]),
        row_count |-> Len(backend.rows)]

\* DBOpsWorker._execute_mongodb after db.command(cmd): json.dumps of the response
ExecuteMongoResult(backend) ==
  [payload |-> Payload("json", "{json}"), row_count |-> 0]

----------------------------------------------------------------------------
(* Initial state: a constructed worker, not started *)

Requests(k) ==
  CASE k = "CommandWorker" -> CommandReqs
    [] k = "DataPumpWorker" -> DataPumpReqs
    [] k = "DBOpsWorker" -> DBOpsReqs
    [] k = "DBTestWorker" -> DBTestReqs
    [] k = "SQLWorker" -> SQLReqs

Kinds == ProcessKinds \cup DbKinds

Workers == 1..MaxWorkers

\* a constructed worker, not started
WorkerIdle ==
  /\ pc = "idle"
  /\ isRunning = FALSE
  /\ process = "None"
  /\ returncode = None
  /\ childState = "none"
  /\ childStatus = 0
  /\ toWrite = <<>>
  /\ pipe = <<>>
  /\ exc = NoExc
  /\ result = None
  /\ netAttempts = 0
  /\ openHandles = 0
  /\ spc = "idle"
  /\ stopCalls = 0
  /\ stopMark = None
  /\ escaped = {}
  /\ events = <<>>
  /\ runs = 0

\* a widget after _setup_ui: no worker yet, the start button enabled
SlotIdle ==
  /\ wpc = [w \in Workers |-> "none"]
  /\ wflag = [w \in Workers |-> FALSE]
  /\ cur = 0
  /\ uiExecuting = FALSE
  /\ uipc = "idle"
  /\ queue = <<>>

\* no DataPumpWorker under construction
PumpIdle ==
  /\ args = None
  /\ ppc = "none"
  /\ operation = None
  /\ cmd = <<>>
  /\ shown = None
  /\ onPath = {}
  /\ ready = None

\* no profile under comparison
ConnIdle ==
  /\ cprofile = None
  /\ probeTarget = None
  /\ workerTarget = None

\* no ScriptWorker under construction
ScriptIdle ==
  /\ sargs = None
  /\ sstate = "none"
  /\ scommand = None

\* no connection selected on the dashboard, no button clicked
DashIdle ==
  /\ dbType = None
  /\ clicks = <<>>

\* no ConnectionManager
StoreIdle ==
  /\ profiles = <<>>
  /\ uuids = 0
  /\ calls = 0

ExtIdle == PumpIdle /\ ConnIdle /\ ScriptIdle /\ DashIdle /\ StoreIdle

Init ==
  /\ kind \in Kinds
  /\ req \in Requests(kind)
  /\ WorkerIdle
  /\ SlotIdle
  /\ ExtIdle

Emit(evs) == events' = events \o evs

procVars == <<process, returncode, childState, childStatus, toWrite, pipe>>
dbVars == <<result, netAttempts, openHandles>>
stopVars == <<spc, stopCalls, stopMark>>

----------------------------------------------------------------------------
(* QThread.start() and the first statement of run() *)

Start ==
  /\ pc = "idle"
  /\ pc' = "init"
  /\ runs' = runs + 1
  /\ UNCHANGED <<slotVars, extVars, kind, req, isRunning, procVars, exc, dbVars, stopVars, escaped, events>>

\* QThread.start() on an instance whose run() has returned: the thread is
\* started again and run() is entered a second time; no worker class
\* overrides start() or remembers that it has run. start() and stop() are
\* calls of the same (interface) thread. The new run has a new child and a
\* new event history; the instance's fields are what 'finally' left.
StartAgain ==
  /\ pc = "done"
  /\ spc = "idle"
  /\ runs < MaxRuns
  /\ runs' = runs + 1
  /\ pc' = "init"
  /\ returncode' = None
  /\ childState' = "none"
  /\ childStatus' = 0
  /\ toWrite' = <<>>
  /\ pipe' = <<>>
  /\ exc' = NoExc
  /\ result' = None
  /\ netAttempts' = 0
  /\ openHandles' = 0
  /\ stopCalls' = 0
  /\ stopMark' = None
  /\ escaped' = {}
  /\ events' = <<>>
  /\ UNCHANGED <<slotVars, extVars, kind, req, isRunning, process, spc>>

\* self._is_running = True
RunSetFlag ==
  /\ pc = "init"
  /\ isRunning' = TRUE
  /\ pc' = CASE kind = "CommandWorker" -> "spawn"
             [] kind = "DataPumpWorker" -> "announce"
             [] OTHER -> "exec"
  /\ UNCHANGED <<slotVars, extVars, runs, kind, req, procVars, exc, dbVars, stopVars, escaped, events>>

----------------------------------------------------------------------------
(* CommandWorker.run and DataPumpWorker.run *)

\* DataPumpWorker.run: the masked invocation and a rule, before the spawn
Announce ==
  /\ pc = "announce"
  /\ Emit(<<Ev("output", "invocation", "worker"), Ev("output", "----", "worker")>>)
  /\ pc' = "spawn"
  /\ UNCHANGED <<slotVars, extVars, runs, kind, req, isRunning, procVars, exc, dbVars, stopVars, escaped>>

\* self._process = subprocess.Popen(...)
Spawn ==
  /\ pc = "spawn"
  /\ IF SpawnOutcome(req) = "spawned"
       THEN /\ process' = "Popen"
            /\ childState' = "alive"
            /\ toWrite' = req.script
            /\ pc' = "loop"
            /\ UNCHANGED exc
       ELSE /\ exc' = Exc(SpawnOutcome(req), "spawn failed", {})
            /\ pc' = "except"
            /\ UNCHANGED <<process, childState, toWrite>>
  /\ UNCHANGED <<slotVars, extVars, runs, kind, req, isRunning, returncode, childStatus, pipe, dbVars, stopVars,
                 escaped, events>>

\* while self._is_running and self._process.poll() is None:
\* poll() is not called when the flag is already false
LoopCheck ==
  /\ pc = "loop"
  /\ IF ~isRunning
       THEN pc' = "drain" /\ UNCHANGED returncode
       ELSE IF childState = "exited"
         THEN /\ returncode' = IF returncode = None THEN Some(childStatus) ELSE returncode
              /\ pc' = "drain"
         ELSE pc' = "readline" /\ UNCHANGED returncode
  /\ UNCHANGED <<slotVars, extVars, runs, kind, req, isRunning, process, childState, childStatus, toWrite, pipe,
                 exc, dbVars, stopVars, escaped, events>>

\* a loop that forwards every line it reads, empty or not
LoopLineEventsUnfiltered(line) ==
  <<Ev("output", RStrip(line, {"\r", "\n"}), "loop")>>

\* decoded_line = decoded_line.rstrip('\r\n'); emitted if not empty
LoopLineEvents(line) ==
  LET decoded_line == RStrip(line, {"\r", "\n"})
  IN IF decoded_line # "" THEN <<Ev("output", decoded_line, "loop")>> ELSE <<>>

\* line = self._process.stdout.readline(): blocks until a line or end of file
Readline ==
  /\ pc = "readline"
  /\ \/ /\ pipe # <<>>
        /\ Emit(LoopLineEvents(Head(pipe)))
        /\ pipe' = Tail(pipe)
     \/ /\ pipe = <<>>
        /\ childState = "exited"
        /\ UNCHANGED <<pipe, events>>
  /\ pc' = "loop"
  /\ UNCHANGED <<slotVars, extVars, runs, kind, req, isRunning, process, returncode, childState, childStatus, toWrite,
                 exc, dbVars, stopVars, escaped>>

\* if remaining: for line in decoded.strip().split('\n'):
\*   if line.strip(): emit(line.rstrip('\r\n'))
DrainEvents(chunks) ==
  LET remaining == Concat(chunks)
      lines == Split(Strip(remaining), "\n")
      kept == SelectSeq(lines, LAMBDA l : Strip(l) # "")
  IN IF remaining = "" THEN <<>>
     ELSE [i \in 1..Len(kept) |-> Ev("output", RStrip(kept[i], {"\r", "\n"}), "drain")]

\* remaining = self._process.stdout.read(): blocks until end of file
Drain ==
  /\ pc = "drain"
  /\ childState = "exited"
  /\ Emit(DrainEvents(pipe))
  /\ pipe' = <<>>
  /\ pc' = "finish"
  /\ UNCHANGED <<slotVars, extVars, runs, kind, req, isRunning, process, returncode, childState, childStatus, toWrite,
                 exc, dbVars, stopVars, escaped>>

\* the events of lines 113-115 (CommandWorker) and 144-154 (DataPumpWorker) for
\* an exit_code that is an integer
FinishEvents(k, exit_code) ==
  IF k = "CommandWorker" THEN <<Ev("finished", exit_code, "-")>>
  ELSE <<Ev("output", "----", "worker"),
         Ev("output", IF exit_code = 0 THEN "succeeded" ELSE "failed", "worker"),
         Ev("finished", exit_code, exit_code = 0)>>

\* exit_code = self._process.returncode; finished_signal.emit(exit_code ...).
\* A returncode that was never collected is None: the int signal either
\* refuses it (TypeError, handled below) or delivers it as 0.
Finish ==
  /\ pc = "finish"
  /\ IF returncode # None
       THEN /\ Emit(FinishEvents(kind, returncode[1]))
            /\ pc' = "finally"
            /\ UNCHANGED exc
       ELSE LET before == IF kind = "CommandWorker" THEN <<>>
                          ELSE <<Ev("output", "----", "worker"), Ev("output", "failed", "worker")>>
            IN \/ /\ Emit(before)
                  /\ exc' = Exc("TypeError", "emit(None)", {})
                  /\ pc' = "except"
               \/ /\ Emit(before \o <<Ev("finished", 0, IF kind = "CommandWorker" THEN "-" ELSE FALSE)>>)
                  /\ pc' = "finally"
                  /\ UNCHANGED exc
  /\ UNCHANGED <<slotVars, extVars, runs, kind, req, isRunning, procVars, dbVars, stopVars, escaped>>

\* an except clause that reports the error and forgets the finished signal
ExceptEventsNoFinished(k, e) ==
  <<Ev("error", Msg("exception", "exception: " \o e.text), "")>>

\* the except clauses of CommandWorker.run (117-127) and DataPumpWorker.run (156-166)
ExceptEvents(k, e) ==
  LET cls == IF e.type = "FileNotFoundError" THEN "not-found"
             ELSE IF e.type = "PermissionError" /\ k = "CommandWorker" THEN "permission"
             ELSE "exception"
      err == Ev("error", Msg(cls, cls \o ": " \o e.text), "")
  IN IF k = "CommandWorker"
       THEN <<err, Ev("finished", Sentinel, "-")>>
       ELSE <<Ev("output", "[error]", "worker"), err, Ev("finished", Sentinel, FALSE)>>

ProcExcept ==
  /\ pc = "except"
  /\ kind \in ProcessKinds
  /\ Emit(ExceptEvents(kind, exc))
  /\ exc' = Caught(exc)
  /\ pc' = "finally"
  /\ UNCHANGED <<slotVars, extVars, runs, kind, req, isRunning, procVars, dbVars, stopVars, escaped>>

\* finally: self._is_running = False; self._process = None
ProcFinally ==
  /\ pc = "finally"
  /\ kind \in ProcessKinds
  /\ isRunning' = FALSE
  /\ process' = "None"
  /\ pc' = "done"
  /\ UNCHANGED <<slotVars, extVars, runs, kind, req, returncode, childState, childStatus, toWrite, pipe, exc,
                 dbVars, stopVars, escaped, events>>

----------------------------------------------------------------------------
(* The child process *)

ChildWrite ==
  /\ childState = "alive"
  /\ toWrite # <<>>
  /\ pipe' = Append(pipe, Head(toWrite))
  /\ toWrite' = Tail(toWrite)
  /\ UNCHANGED <<slotVars, extVars, runs, kind, req, pc, isRunning, process, returncode, childState, childStatus,
                 exc, dbVars, stopVars, escaped, events>>

\* the command ends by itself, if it ever does
ChildExit ==
  /\ childState = "alive"
  /\ toWrite = <<>>
  /\ req.selfExit # None
  /\ childState' = "exited"
  /\ childStatus' = req.selfExit[1]
  /\ UNCHANGED <<slotVars, extVars, runs, kind, req, pc, isRunning, process, returncode, toWrite, pipe,
                 exc, dbVars, stopVars, escaped, events>>

----------------------------------------------------------------------------
(* stop(), on the caller's thread *)

\* self._is_running = False, the first statement of every stop()
StopCall ==
  /\ spc = "idle"
  /\ pc # "idle"
  /\ stopCalls < MaxStops
  /\ stopCalls' = stopCalls + 1
  /\ stopMark' = IF stopMark = None THEN Some([n |-> Len(events), at |-> pc]) ELSE stopMark
  /\ isRunning' = FALSE
  /\ spc' = IF kind \in ProcessKinds THEN "s_check"
            ELSE IF kind = "SQLWorker" THEN "idle"
            ELSE "s_wait"
  /\ UNCHANGED <<slotVars, extVars, runs, kind, req, pc, procVars, exc, dbVars, escaped, events>>

\* DBOpsWorker.stop / DBTestWorker.stop: self.wait(1000) returns when the
\* thread has ended or after a second, whichever comes first
StopWaitThread ==
  /\ spc = "s_wait"
  /\ spc' = "idle"
  /\ UNCHANGED <<slotVars, extVars, runs, kind, req, pc, isRunning, procVars, exc, dbVars, stopCalls, stopMark,
                 escaped, events>>

\* if self._process ...
StopCheckProcess ==
  /\ spc = "s_check"
  /\ spc' = IF process = "None" THEN "idle" ELSE "s_poll"
  /\ UNCHANGED <<slotVars, extVars, runs, kind, req, pc, isRunning, procVars, exc, dbVars, stopCalls, stopMark,
                 escaped, events>>

\* ... and self._process.poll() is None: the attribute is read again, outside
\* the try; on None the AttributeError leaves stop()
StopPoll ==
  /\ spc = "s_poll"
  /\ IF process = "None"
       THEN /\ escaped' = escaped \cup {"stop"}
            /\ spc' = "idle"
            /\ UNCHANGED returncode
       ELSE IF childState = "exited"
         THEN /\ returncode' = IF returncode = None THEN Some(childStatus) ELSE returncode
              /\ spc' = "idle"
              /\ UNCHANGED escaped
         ELSE /\ spc' = "s_term"
              /\ UNCHANGED <<returncode, escaped>>
  /\ UNCHANGED <<slotVars, extVars, runs, kind, req, pc, isRunning, process, childState, childStatus, toWrite, pipe,
                 exc, dbVars, stopCalls, stopMark, events>>

\* where stop() goes when a call in its try block raises anything but
\* TimeoutExpired: CommandWorker has "except Exception: pass", DataPumpWorker
\* a bare except whose handler calls kill()
AfterTryError(k) == IF k = "CommandWorker" THEN "idle" ELSE "s_kill"

\* self._process.terminate(): polls, then signals a child that is still alive
StopTerminate ==
  /\ spc = "s_term"
  /\ IF process = "None"
       THEN /\ spc' = AfterTryError(kind)
            /\ UNCHANGED <<returncode, childState, childStatus>>
       ELSE /\ spc' = "s_waitproc"
            /\ IF childState = "exited"
                 THEN /\ returncode' = IF returncode = None THEN Some(childStatus) ELSE returncode
                      /\ UNCHANGED <<childState, childStatus>>
                 ELSE /\ UNCHANGED returncode
                      /\ IF req.ignoresTerm
                           THEN UNCHANGED <<childState, childStatus>>
                           ELSE childState' = "exited" /\ childStatus' = TermStatus
  /\ UNCHANGED <<slotVars, extVars, runs, kind, req, pc, isRunning, process, toWrite, pipe, exc, dbVars, stopCalls,
                 stopMark, escaped, events>>

\* self._process.wait(timeout=...): collects the status, or TimeoutExpired
StopWaitProcess ==
  /\ spc = "s_waitproc"
  /\ IF process = "None"
       THEN spc' = AfterTryError(kind) /\ UNCHANGED returncode
       ELSE IF childState = "exited"
         THEN /\ returncode' = IF returncode = None THEN Some(childStatus) ELSE returncode
              /\ spc' = "idle"
         ELSE spc' = "s_kill" /\ UNCHANGED returncode
  /\ UNCHANGED <<slotVars, extVars, runs, kind, req, pc, isRunning, process, childState, childStatus, toWrite, pipe,
                 exc, dbVars, stopCalls, stopMark, escaped, events>>

\* self._process.kill() in the except handler: nothing catches what it raises,
\* and nothing waits for the child afterwards
StopKill ==
  /\ spc = "s_kill"
  /\ spc' = "idle"
  /\ IF process = "None"
       THEN /\ escaped' = escaped \cup {"stop"}
            /\ UNCHANGED <<returncode, childState, childStatus>>
       ELSE /\ UNCHANGED escaped
            /\ IF childState = "exited"
                 THEN /\ returncode' = IF returncode = None THEN Some(childStatus) ELSE returncode
                      /\ UNCHANGED <<childState, childStatus>>
                 ELSE /\ childState' = "exited"
                      /\ childStatus' = KillStatus
                      /\ UNCHANGED returncode
  /\ UNCHANGED <<slotVars, extVars, runs, kind, req, pc, isRunning, process, toWrite, pipe, exc, dbVars, stopCalls,
                 stopMark, events>>

----------------------------------------------------------------------------
(* DBOpsWorker.run *)

\* _execute_mongodb up to MongoClient(uri, ...), or _execute_sql up to
\* create_engine(...): the imports, then the connection target
DbExecBegin ==
  /\ pc = "exec"
  /\ kind = "DBOpsWorker"
  /\ IF ~req.deps
       THEN /\ exc' = Exc("ImportError", "no module", {})
            /\ pc' = "except"
            /\ UNCHANGED dbVars
       ELSE IF req.profile.db_type # "mongodb" /\ BuildConnectionString(req.profile) = None
         THEN /\ exc' = UnsupportedError(req.profile.db_type)
              /\ pc' = "except"
              /\ UNCHANGED dbVars
         ELSE /\ netAttempts' = netAttempts + 1
              /\ openHandles' = openHandles + 1
              /\ pc' = "netcall"
              /\ UNCHANGED <<exc, result>>
  /\ UNCHANGED <<slotVars, extVars, runs, kind, req, isRunning, procVars, stopVars, escaped, events>>

\* json.loads(self.sql_text) when sql_text is not a dict
MongoCommandParses(sqlText) == sqlText \in {"dict", "json"}

\* the blocking call: engine.connect() and connection.execute(), or
\* db.command(cmd); the connection is closed on the way out (with / finally)
DbNetCall ==
  /\ pc = "netcall"
  /\ kind = "DBOpsWorker"
  /\ openHandles' = openHandles - 1
  /\ UNCHANGED netAttempts
  /\ IF req.profile.db_type = "mongodb" /\ ~MongoCommandParses(req.sqlText)
       THEN exc' = Exc("JSONDecodeError", "expecting value", {}) /\ pc' = "except"
                 /\ UNCHANGED result
       ELSE IF req.backend.o = "error"
         THEN exc' = DriverError(req.backend.marks) /\ pc' = "except" /\ UNCHANGED result
         ELSE /\ result' = Some(IF req.profile.db_type = "mongodb"
                                  THEN ExecuteMongoResult(req.backend)
                                  ELSE ExecuteSqlResult(req.resultType, req.backend))
              /\ pc' = "check"
              /\ UNCHANGED exc
  /\ UNCHANGED <<slotVars, extVars, runs, kind, req, isRunning, procVars, stopVars, escaped, events>>

\* if self._is_running: (line 83)
DbCheck ==
  /\ pc = "check"
  /\ kind = "DBOpsWorker"
  /\ pc' = IF isRunning THEN "emit_result" ELSE "finally"
  /\ UNCHANGED <<slotVars, extVars, runs, kind, req, isRunning, procVars, exc, dbVars, stopVars, escaped, events>>

\* self.result_signal.emit("success", self.result_type, result, metadata)
DbEmitResult ==
  /\ pc = "emit_result"
  /\ kind = "DBOpsWorker"
  /\ Emit(<<Ev("result", req.resultType, result[1])>>)
  /\ pc' = "finally"
  /\ UNCHANGED <<slotVars, extVars, runs, kind, req, isRunning, procVars, exc, dbVars, stopVars, escaped>>

\* except Exception as e: if self._is_running: (line 88)
DbExcept ==
  /\ pc = "except"
  /\ kind = "DBOpsWorker"
  /\ exc' = Caught(exc)
  /\ pc' = IF isRunning THEN "emit_error" ELSE "finally"
  /\ UNCHANGED <<slotVars, extVars, runs, kind, req, isRunning, procVars, dbVars, stopVars, escaped, events>>

\* self.error_signal.emit(self._parse_error(e, db_type), self.sql_text)
DbEmitError ==
  /\ pc = "emit_error"
  /\ kind = "DBOpsWorker"
  /\ Emit(<<Ev("error", ParseError(exc, req.profile.db_type), req.sqlText)>>)
  /\ pc' = "finally"
  /\ UNCHANGED <<slotVars, extVars, runs, kind, req, isRunning, procVars, exc, dbVars, stopVars, escaped>>

\* finally: self._is_running = False; self.finished_signal.emit()
DbFinally ==
  /\ pc = "finally"
  /\ kind = "DBOpsWorker"
  /\ isRunning' = FALSE
  /\ Emit(<<Ev("finished", 0, "-")>>)
  /\ pc' = "done"
  /\ UNCHANGED <<slotVars, extVars, runs, kind, req, procVars, exc, dbVars, stopVars, escaped>>

----------------------------------------------------------------------------
(* DBTestWorker.run and test_db_connection *)

\* db_tester._build_connection_string: "mongodb" is a marker, None is unsupported
ProbeBuildConnectionString(profile) ==
  LET db_type == profile.db_type
      cred == [user |-> IF profile.username # "" THEN QuotePlus(profile.username) ELSE "",
               password |-> IF profile.password # "" THEN QuotePlus(profile.password) ELSE "",
               host |-> profile.host, port |-> profile.port]
  IN IF db_type \in {"mysql", "mariadb"}
       THEN Some([driver |-> "mysql+pymysql", cred |-> cred,
                  path |-> IF profile.database # "" THEN "/" \o profile.database ELSE ""])
     ELSE IF db_type = "sqlserver"
       THEN Some([driver |-> "mssql+pymssql", cred |-> cred,
                  path |-> IF profile.database # "" THEN "/" \o profile.database ELSE ""])
     ELSE IF db_type = "oracle"
       THEN Some([driver |-> "oracle+oracledb", cred |-> cred,
                  path |-> (IF profile.oracle_mode = "sid" THEN "/?sid=" ELSE "/?service_name=")
                           \o profile.oracle_value])
     ELSE IF db_type = "mongodb" THEN Some("mongodb")
     ELSE None

\* families test_db_connection hands to a tester of their own before it
\* builds any connection string
OwnTesterFamilies == {"mongodb", "redis", "elasticsearch"}

\* test_db_connection up to the first network call.  An exception raised before
\* "from sqlalchemy.exc import SQLAlchemyError" has run meets
\* "except SQLAlchemyError" with that name unbound: UnboundLocalError leaves
\* the function (likewise PyMongoError in _test_mongodb_connection).
ProbeBegin ==
  /\ pc = "exec"
  /\ kind = "DBTestWorker"
  /\ IF ~req.deps
       THEN /\ exc' = Exc("UnboundLocalError", "cannot access local variable", {})
            /\ pc' = "except"
            /\ UNCHANGED dbVars
       ELSE IF req.profile.db_type \notin OwnTesterFamilies
               /\ ProbeBuildConnectionString(req.profile) = None
         THEN /\ result' = Some([success |-> FALSE,
                                 message |-> "unsupported db type: " \o req.profile.db_type])
              /\ pc' = "check"
              /\ UNCHANGED <<exc, netAttempts, openHandles>>
         ELSE /\ netAttempts' = netAttempts + 1
              /\ openHandles' = openHandles + 1
              /\ pc' = "netcall"
              /\ UNCHANGED <<exc, result>>
  /\ UNCHANGED <<slotVars, extVars, runs, kind, req, isRunning, procVars, stopVars, escaped, events>>

\* db_tester._parse_sqlalchemy_error
ParseSqlalchemyError(e, db_type) ==
  IF db_type = "mysql" /\ "access denied" \in e.marks THEN "auth failed"
  ELSE IF db_type = "mysql" /\ "unknown host" \in e.marks THEN "host does not exist"
  ELSE IF db_type = "mysql" /\ "can't connect" \in e.marks THEN "cannot connect"
  ELSE IF db_type = "mysql" /\ "unknown database" \in e.marks THEN "database does not exist"
  ELSE IF db_type = "postgresql" /\ "authentication failed" \in e.marks THEN "auth failed"
  ELSE IF db_type = "postgresql" /\ "could not connect" \in e.marks THEN "cannot connect"
  ELSE IF db_type = "postgresql" /\ "does not exist" \in e.marks THEN "database does not exist"
  ELSE IF "timeout" \in e.marks THEN "connect timeout"
  ELSE IF "refused" \in e.marks THEN "connection refused"
  ELSE IF "network" \in e.marks THEN "network error"
  ELSE Prefix(e.text, 200)

\* the connection and the liveness statement: (success, message).  The with
\* block closes the SQL connection; _test_mongodb_connection closes its client
\* only after server_info() has returned.
ProbeNetCall ==
  /\ pc = "netcall"
  /\ kind = "DBTestWorker"
  /\ UNCHANGED <<netAttempts, exc>>
  /\ IF req.backend.o = "error"
       THEN IF req.profile.db_type \in OwnTesterFamilies
              THEN /\ result' = Some([success |-> FALSE, message |-> "connect failed: driver diagnostic"])
                   /\ UNCHANGED openHandles
              ELSE /\ result' = Some([success |-> FALSE,
                        message |-> "connect failed: " \o
                          ParseSqlalchemyError(DriverError(req.backend.marks), req.profile.db_type)])
                   /\ openHandles' = openHandles - 1
       ELSE /\ result' = Some([success |-> TRUE, message |-> "connected"])
            /\ openHandles' = openHandles - 1
  /\ pc' = "check"
  /\ UNCHANGED <<slotVars, extVars, runs, kind, req, isRunning, procVars, stopVars, escaped, events>>

\* if self._is_running: (line 453)
ProbeCheck ==
  /\ pc = "check"
  /\ kind = "DBTestWorker"
  /\ pc' = IF isRunning THEN "emit_result" ELSE "finally"
  /\ UNCHANGED <<slotVars, extVars, runs, kind, req, isRunning, procVars, exc, dbVars, stopVars, escaped, events>>

\* self.success_signal.emit(message) / self.error_signal.emit(message)
ProbeEmitResult ==
  /\ pc = "emit_result"
  /\ kind = "DBTestWorker"
  /\ Emit(<<IF result[1].success THEN Ev("success", result[1].message, "")
            ELSE Ev("error", Msg("probe", result[1].message), "")>>)
  /\ pc' = "finally"
  /\ UNCHANGED <<slotVars, extVars, runs, kind, req, isRunning, procVars, exc, dbVars, stopVars, escaped>>

\* except Exception as e: if self._is_running: (line 460)
ProbeExcept ==
  /\ pc = "except"
  /\ kind = "DBTestWorker"
  /\ exc' = Caught(exc)
  /\ pc' = IF isRunning THEN "emit_error" ELSE "finally"
  /\ UNCHANGED <<slotVars, extVars, runs, kind, req, isRunning, procVars, dbVars, stopVars, escaped, events>>

ProbeEmitError ==
  /\ pc = "emit_error"
  /\ kind = "DBTestWorker"
  /\ Emit(<<Ev("error", Msg("thread", "test thread exception: " \o exc.text), "")>>)
  /\ pc' = "finally"
  /\ UNCHANGED <<slotVars, extVars, runs, kind, req, isRunning, procVars, exc, dbVars, stopVars, escaped>>

\* finally: self._is_running = False; self.finished_signal.emit()
ProbeFinally ==
  /\ pc = "finally"
  /\ kind = "DBTestWorker"
  /\ isRunning' = FALSE
  /\ Emit(<<Ev("finished", 0, "-")>>)
  /\ pc' = "done"
  /\ UNCHANGED <<slotVars, extVars, runs, kind, req, procVars, exc, dbVars, stopVars, escaped>>

----------------------------------------------------------------------------
(* SQLWorker.run *)

\* SQLWorker._build_connection_string knows mysql, postgresql, sqlite, mssql, oracle
SqlBuildConnectionString(profile) ==
  LET db_type == profile.db_type
      cred == [user |-> QuotePlus(profile.username), password |-> QuotePlus(profile.password),
               host |-> profile.host, port |-> profile.port]
      path == IF profile.database # "" THEN "/" \o profile.database ELSE ""
  IN IF db_type = "mysql" THEN Some([driver |-> "mysql+pymysql", cred |-> cred, path |-> path])
     ELSE IF db_type = "postgresql"
       THEN Some([driver |-> "postgresql+psycopg2", cred |-> cred, path |-> path])
     ELSE IF db_type = "oracle"
       THEN Some([driver |-> "oracle+cx_oracle", cred |-> cred,
                  path |-> "/?service_name=" \o
                           (IF profile.database # "" THEN profile.database ELSE "ORCL")])
     ELSE None

\* from sqlalchemy import ...: the first statement of the try block.  When it
\* raises, "except SQLAlchemyError" is evaluated with the name unbound, and
\* the UnboundLocalError is on its way out of run() through the finally block.
SqlImport ==
  /\ pc = "exec"
  /\ kind = "SQLWorker"
  /\ IF req.deps
       THEN pc' = "build" /\ UNCHANGED exc
       ELSE /\ exc' = Exc("UnboundLocalError", "cannot access local variable", {})
            /\ pc' = "finally"
  /\ UNCHANGED <<slotVars, extVars, runs, kind, req, isRunning, procVars, dbVars, stopVars, escaped, events>>

\* connection_string = self._build_connection_string(); error and return if None
SqlBuild ==
  /\ pc = "build"
  /\ kind = "SQLWorker"
  /\ IF SqlBuildConnectionString(req.profile) = None
       THEN /\ Emit(<<Ev("error", Msg("unsupported", "unsupported db type"), "")>>)
            /\ pc' = "finally"
            /\ UNCHANGED dbVars
       ELSE /\ netAttempts' = netAttempts + 1
            /\ openHandles' = openHandles + 1
            /\ pc' = "netcall"
            /\ UNCHANGED <<result, events>>
  /\ UNCHANGED <<slotVars, extVars, runs, kind, req, isRunning, procVars, exc, stopVars, escaped>>

\* engine.connect() and connection.execute(stmt)
SqlNetCall ==
  /\ pc = "netcall"
  /\ kind = "SQLWorker"
  /\ IF req.backend.o = "error"
       THEN /\ exc' = Exc("SQLAlchemyError", "driver diagnostic", req.backend.marks)
            /\ openHandles' = openHandles - 1
            /\ pc' = "except"
       ELSE /\ pc' = "handle"
            /\ UNCHANGED <<exc, openHandles>>
  /\ UNCHANGED <<slotVars, extVars, runs, kind, req, isRunning, procVars, result, netAttempts, stopVars, escaped, events>>

\* _handle_select_result / _handle_execute_result: each catches what it raises
\* and reports it as an error
SqlHandle ==
  /\ pc = "handle"
  /\ kind = "SQLWorker"
  /\ Emit(<<IF req.handleFails THEN Ev("error", Msg("handle", "handling result failed"), "")
            ELSE IF req.isSelect THEN Ev("select_result", "headers", req.backend.rows)
            ELSE Ev("execute_result", req.backend.rowcount, "ok")>>)
  /\ pc' = "commit"
  /\ UNCHANGED <<slotVars, extVars, runs, kind, req, isRunning, procVars, exc, dbVars, stopVars, escaped>>

\* connection.commit(), then the with block closes the connection
SqlCommit ==
  /\ pc = "commit"
  /\ kind = "SQLWorker"
  /\ openHandles' = openHandles - 1
  /\ IF req.commitFails
       THEN exc' = Exc("SQLAlchemyError", "commit failed", {}) /\ pc' = "except"
       ELSE pc' = "finally" /\ UNCHANGED exc
  /\ UNCHANGED <<slotVars, extVars, runs, kind, req, isRunning, procVars, result, netAttempts, stopVars, escaped, events>>

\* SQLWorker._parse_error
SqlParseError(e) ==
  IF "access denied" \in e.marks THEN Msg("auth", "auth failed")
  ELSE IF "unknown database" \in e.marks THEN Msg("nodb", "database does not exist")
  ELSE IF "can't connect" \in e.marks THEN Msg("connect", "cannot connect")
  ELSE IF "table" \in e.marks /\ "doesn't exist" \in e.marks THEN Msg("notable", "table does not exist")
  ELSE IF "column" \in e.marks /\ "unknown" \in e.marks THEN Msg("nocolumn", "column does not exist")
  ELSE IF "syntax" \in e.marks THEN Msg("syntax", "SQL syntax error: " \o e.text)
  ELSE IF "timeout" \in e.marks THEN Msg("timeout", "connect timeout")
  ELSE IF "permission" \in e.marks \/ "denied" \in e.marks THEN Msg("permission", "insufficient privileges")
  ELSE Msg("generic", "SQL error: " \o e.text)

\* except SQLAlchemyError / except Exception: the error signal, whatever the flag
SqlExcept ==
  /\ pc = "except"
  /\ kind = "SQLWorker"
  /\ Emit(<<Ev("error", SqlParseError(exc), "")>>)
  /\ exc' = Caught(exc)
  /\ pc' = "finally"
  /\ UNCHANGED <<slotVars, extVars, runs, kind, req, isRunning, procVars, dbVars, stopVars, escaped>>

\* finally: self._is_running = False; self.finished_signal.emit(); an
\* exception no clause has caught then leaves run()
SqlFinally ==
  /\ pc = "finally"
  /\ kind = "SQLWorker"
  /\ isRunning' = FALSE
  /\ Emit(<<Ev("finished", 0, "-")>>)
  /\ escaped' = IF exc.state = "raised" THEN escaped \cup {"run"} ELSE escaped
  /\ pc' = "done"
  /\ UNCHANGED <<slotVars, extVars, runs, kind, req, procVars, exc, dbVars, stopVars>>

----------------------------------------------------------------------------

RunStep ==
  \/ RunSetFlag
  \/ Announce \/ Spawn \/ LoopCheck \/ Readline \/ Drain \/ Finish \/ ProcExcept \/ ProcFinally
  \/ DbExecBegin \/ DbNetCall \/ DbCheck \/ DbEmitResult \/ DbExcept \/ DbEmitError \/ DbFinally
  \/ ProbeBegin \/ ProbeNetCall \/ ProbeCheck \/ ProbeEmitResult \/ ProbeExcept
  \/ ProbeEmitError \/ ProbeFinally
  \/ SqlImport \/ SqlBuild \/ SqlNetCall \/ SqlHandle \/ SqlCommit \/ SqlExcept \/ SqlFinally

ChildStep == ChildWrite \/ ChildExit

StopStep ==
  StopWaitThread \/ StopCheckProcess \/ StopPoll \/ StopTerminate \/ StopWaitProcess \/ StopKill

Next == Start \/ StartAgain \/ RunStep \/ ChildStep \/ StopCall \/ StopStep

Spec == Init /\ [][Next]_vars

----------------------------------------------------------------------------
(* The widgets' worker slots: SQL console (SQLWorker), operations dashboard *)
(* (DBOpsWorker), connection wizard (DBTestWorker).  kind is the class of   *)
(* the slot's workers.                                                      *)

SlotKinds == {"SQLWorker", "DBOpsWorker", "DBTestWorker"}

Created == {w \in Workers : wpc[w] # "none"}

\* run() has begun and has not reached its finally clause
Executing(w) == wpc[w] \in {"call", "emit"}

\* self.<worker> and self.<worker>.is_running()
CurIsRunning == cur # 0 /\ wflag[cur]

\* <worker> = Worker(...); connect the signals; <worker>.start()
StartNew ==
  LET w == Cardinality(Created) + 1
  IN /\ wpc' = [wpc EXCEPT ![w] = "started"]
     /\ cur' = w
     /\ uiExecuting' = TRUE
     /\ uipc' = "idle"

\* SQLConsoleWidget._on_execute, from execute_btn.clicked (only while the
\* button is enabled) or from the Ctrl+Return / Ctrl+Enter shortcuts
OnExecute ==
  /\ kind = "SQLWorker"
  /\ uipc = "idle"
  /\ Cardinality(Created) < MaxWorkers
  /\ \E viaShortcut \in BOOLEAN :
       /\ viaShortcut \/ ~uiExecuting
       \* if self.sql_worker and self.sql_worker.is_running(): self.sql_worker.stop()
       /\ wflag' = IF CurIsRunning THEN [wflag EXCEPT ![cur] = FALSE] ELSE wflag
       /\ StartNew
  /\ UNCHANGED <<workerVars, extVars, queue>>

\* SQLConsoleWidget._on_stop, from stop_btn.clicked (enabled while executing)
OnStop ==
  /\ kind = "SQLWorker"
  /\ uipc = "idle"
  /\ uiExecuting
  /\ CurIsRunning
  /\ wflag' = [wflag EXCEPT ![cur] = FALSE]
  /\ uiExecuting' = FALSE
  /\ UNCHANGED <<workerVars, extVars, wpc, cur, uipc, queue>>

\* DatabaseOpsWidget._on_operation_click / ConnectionWizard._on_test, from a
\* button that is enabled: stop() of the previous worker clears its flag and
\* waits up to a second for its thread
OnOperationClick ==
  /\ kind \in {"DBOpsWorker", "DBTestWorker"}
  /\ uipc = "idle"
  /\ ~uiExecuting
  /\ Cardinality(Created) < MaxWorkers
  /\ IF CurIsRunning
       THEN /\ wflag' = [wflag EXCEPT ![cur] = FALSE]
            /\ uipc' = "stop_wait"
            /\ UNCHANGED <<wpc, cur, uiExecuting>>
       ELSE /\ StartNew
            /\ UNCHANGED wflag
  /\ UNCHANGED <<workerVars, extVars, queue>>

\* self.wait(1000) returns, the thread ended or not; the handler goes on
AfterStopWait ==
  /\ uipc = "stop_wait"
  /\ StartNew
  /\ UNCHANGED <<workerVars, extVars, wflag, queue>>

\* run(): self._is_running = True
WRun(w) ==
  /\ wpc[w] = "started"
  /\ wpc' = [wpc EXCEPT ![w] = "call"]
  /\ wflag' = [wflag EXCEPT ![w] = TRUE]
  /\ UNCHANGED <<workerVars, extVars, cur, uiExecuting, uipc, queue>>

\* the database call returns
WCall(w) ==
  /\ wpc[w] = "call"
  /\ wpc' = [wpc EXCEPT ![w] = "emit"]
  /\ UNCHANGED <<workerVars, extVars, wflag, cur, uiExecuting, uipc, queue>>

\* the result or error signal: DBOpsWorker and DBTestWorker emit it only if
\* self._is_running, SQLWorker always
WEmit(w) ==
  /\ wpc[w] = "emit"
  /\ wpc' = [wpc EXCEPT ![w] = "finally"]
  /\ queue' = IF kind = "SQLWorker" \/ wflag[w]
                THEN Append(queue, [w |-> w, sig |-> "terminal"])
                ELSE queue
  /\ UNCHANGED <<workerVars, extVars, wflag, cur, uiExecuting, uipc>>

\* finally: self._is_running = False; self.finished_signal.emit()
WFinally(w) ==
  /\ wpc[w] = "finally"
  /\ wpc' = [wpc EXCEPT ![w] = "done"]
  /\ wflag' = [wflag EXCEPT ![w] = FALSE]
  /\ queue' = Append(queue, [w |-> w, sig |-> "finished"])
  /\ UNCHANGED <<workerVars, extVars, cur, uiExecuting, uipc>>

\* the signal that enables the start button again: finished for the console
\* and the dashboard, the success or error signal for the wizard
Reenables(sig) ==
  IF kind = "DBTestWorker" THEN sig = "terminal" ELSE sig = "finished"

\* the interface thread runs the slot connected to the oldest queued signal
Deliver ==
  /\ uipc = "idle"
  /\ queue # <<>>
  /\ queue' = Tail(queue)
  /\ uiExecuting' = IF Reenables(Head(queue).sig) THEN FALSE ELSE uiExecuting
  /\ UNCHANGED <<workerVars, extVars, wpc, wflag, cur, uipc>>

SlotInit ==
  /\ kind \in SlotKinds
  /\ req = CHOOSE r \in Requests(kind) : TRUE
  /\ WorkerIdle
  /\ ExtIdle
  /\ SlotIdle

SlotNext ==
  \/ OnExecute
  \/ OnStop
  \/ OnOperationClick
  \/ AfterStopWait
  \/ \E w \in Workers : WRun(w) \/ WCall(w) \/ WEmit(w) \/ WFinally(w)
  \/ Deliver

SlotSpec == SlotInit /\ [][SlotNext]_vars

\* the scheduler runs every thread that can take a step, and a child that
\* ends by itself does end
FairSpec ==
  /\ Spec
  /\ WF_vars(Start) /\ WF_vars(RunStep) /\ WF_vars(ChildStep) /\ WF_vars(StopStep)

----------------------------------------------------------------------------
(* DataPumpWorker: construction, _build_command, the masked invocation line *)

UpperAlpha == "ABCDEFGHIJKLMNOPQRSTUVWXYZ"
LowerAlpha == "abcdefghijklmnopqrstuvwxyz"

LowerCh(c) ==
  LET i == Find(UpperAlpha, c, 1)
  IN IF i = 0 THEN c ELSE Ch(LowerAlpha, i)

RECURSIVE Lower(_)
\* s.lower()
Lower(s) == IF s = "" THEN "" ELSE LowerCh(Ch(s, 1)) \o Lower(SubSeq(s, 2, Len(s)))

RECURSIVE IntStr(_)
\* an int formatted by an f-string
IntStr(n) ==
  IF n < 10 THEN Ch("0123456789", n + 1)
  ELSE IntStr(n \div 10) \o Ch("0123456789", (n % 10) + 1)

\* the operation values a caller may pass
Operations == {"expdp", "impdp", "EXPDP", "export"}
\* passwords of several lengths, one with the separators of the connect
\* string in it, and the empty one
Passwords == {"", "p", "s3cret", "a@b/c"}
\* additional parameters a caller may pass
ParamAlphabet == {"full=n", "table_exists_action=skip", "parallel=2", "job_name=full_exp"}
ParamLists == SeqsUpTo(ParamAlphabet, MaxParams)

DbConfig(password) ==
  [username |-> "system", password |-> password, host |-> "db1", port |-> 1521,
   service_name |-> "orcl"]

\* the arguments of DataPumpWorker(db_config, operation, dmp_filename,
\* directory_name, additional_params)
PumpArgs ==
  [db_config : {DbConfig(pw) : pw \in Passwords},
   operation : Operations,
   dmp_filename : {"f.dmp"},
   directory_name : {"DATA_PUMP_DIR"},
   additional_params : ParamLists]

Modes == {"expdp", "impdp"}

\* a constructor that accepts whatever it is given
ValidOperationAny(op) == TRUE

\* if self.operation not in ["expdp", "impdp"]: raise ValueError
ValidOperation(op) == op \in Modes

\* DataPumpWorker.__init__
Construct ==
  /\ ppc = "new"
  /\ operation' = Some(Lower(args.operation))
  /\ ppc' = IF ValidOperation(Lower(args.operation)) THEN "constructed" ELSE "rejected"
  /\ UNCHANGED <<workerVars, slotVars, connVars, scriptVars, dashVars, storeVars, onPath, ready, args, cmd, shown>>

\* conn_str = f"{username}/{password}@//{host}:{port}/{service_name}"
ConnStr(cfg) ==
  cfg.username \o "/" \o cfg.password \o "@//" \o cfg.host \o ":" \o IntStr(cfg.port)
    \o "/" \o cfg.service_name

\* the default flags _build_command appends for an operation
DefaultFlags(op, additional_params) ==
  LET joined == Join(additional_params, " ")
      full == IF ~Contains(joined, "full") THEN <<"full=y">> ELSE <<>>
      tea == IF ~Contains(joined, "table_exists_action")
               THEN <<"table_exists_action=replace">> ELSE <<>>
  IN IF op = "expdp" THEN full ELSE full \o tea

\* DataPumpWorker._build_command
BuildCommandOf(op, a) ==
  LET base == IF op = "expdp"
                THEN <<"expdp", ConnStr(a.db_config), "directory=" \o a.directory_name,
                       "dumpfile=" \o a.dmp_filename, "logfile=" \o a.dmp_filename \o ".log">>
                ELSE <<"impdp", ConnStr(a.db_config), "directory=" \o a.directory_name,
                       "dumpfile=" \o a.dmp_filename, "logfile=" \o a.dmp_filename \o ".imp.log">>
  IN base \o DefaultFlags(op, a.additional_params) \o a.additional_params

\* cmd_parts = self._build_command(), in run()
BuildCommand ==
  /\ ppc = "constructed"
  /\ cmd' = BuildCommandOf(operation[1], args)
  /\ ppc' = "built"
  /\ UNCHANGED <<workerVars, slotVars, connVars, scriptVars, dashVars, storeVars, onPath, ready, args, operation, shown>>

\* a mask as wide as the password it hides
MaskByLength(cmd_parts, cfg) ==
  LET cmd_str == Join(cmd_parts, " ")
      stars == Join([i \in 1..Len(cfg.password) |-> "*"], "")
  IN IF cfg.password # ""
       THEN Replace(cmd_str, cfg.username \o "/" \o cfg.password \o "@",
                    cfg.username \o "/" \o stars \o "@")
       ELSE cmd_str

\* DataPumpWorker._mask_password_in_cmd
MaskPasswordInCmd(cmd_parts, cfg) ==
  LET cmd_str == Join(cmd_parts, " ")
  IN IF cfg.password # ""
       THEN Replace(cmd_str, cfg.username \o "/" \o cfg.password \o "@",
                    cfg.username \o "/******@")
       ELSE cmd_str

\* the fixed label in front of the invocation line
InvocationLabel == "cmd: "

\* the line run() emits for a descriptor: label and masked command
InvocationLine(op, a) ==
  InvocationLabel \o MaskPasswordInCmd(BuildCommandOf(op, a), a.db_config)

\* self.output_signal.emit(f"执行命令: {masked_cmd}")
AnnounceInvocation ==
  /\ ppc = "built"
  /\ shown' = Some(InvocationLabel \o MaskPasswordInCmd(cmd, args.db_config))
  /\ ppc' = "announced"
  /\ UNCHANGED <<workerVars, slotVars, connVars, scriptVars, dashVars, storeVars, onPath, ready, args, operation, cmd>>

\* the executables the data pump needs
OracleTools == {"expdp", "impdp"}

\* shutil.which(name): the path of the executable, None if it is not on PATH
Which(name, path) == IF name \in path THEN Some("/opt/oracle/bin/" \o name) ELSE None

\* a readiness probe satisfied with either executable
CheckOracleClientEither(path) ==
  IF Which("expdp", path) = None /\ Which("impdp", path) = None
    THEN [ok |-> FALSE, msg |-> "no Oracle client (expdp/impdp not found)"]
  ELSE [ok |-> TRUE, msg |-> "Oracle client ok"]

\* DataPumpWorker.check_oracle_client
CheckOracleClientOf(path) ==
  LET expdp_available == Which("expdp", path) # None
      impdp_available == Which("impdp", path) # None
  IN IF ~expdp_available /\ ~impdp_available
       THEN [ok |-> FALSE,
             msg |-> "no Oracle client (expdp/impdp not found)\ninstall Instant Client and set PATH"]
     ELSE IF ~expdp_available THEN [ok |-> FALSE, msg |-> "expdp not found"]
     ELSE IF ~impdp_available THEN [ok |-> FALSE, msg |-> "impdp not found"]
     ELSE [ok |-> TRUE, msg |-> "Oracle client ok"]

\* DatabaseOpsWidget._execute_datapump: available, msg = check_oracle_client();
\* if not available: message box and return, no worker is constructed
CheckOracleClient ==
  /\ ppc = "new"
  /\ ready = None
  /\ ready' = Some(CheckOracleClientOf(onPath))
  /\ ppc' = IF CheckOracleClientOf(onPath).ok THEN "new" ELSE "unavailable"
  /\ UNCHANGED <<workerVars, slotVars, connVars, scriptVars, dashVars, storeVars, onPath, args, operation, cmd, shown>>

PumpInit ==
  /\ kind = "DataPumpWorker"
  /\ req = CHOOSE r \in Requests(kind) : TRUE
  /\ WorkerIdle
  /\ SlotIdle
  /\ ConnIdle
  /\ ScriptIdle
  /\ DashIdle
  /\ StoreIdle
  /\ args \in PumpArgs
  /\ ppc = "new"
  /\ operation = None
  /\ cmd = <<>>
  /\ shown = None
  /\ onPath \in SUBSET OracleTools
  /\ ready = None

PumpNext == CheckOracleClient \/ Construct \/ BuildCommand \/ AnnounceInvocation

PumpSpec == PumpInit /\ [][PumpNext]_vars

----------------------------------------------------------------------------
(* One stored profile, as the probe and as the operation worker connect to it *)

\* ConnectionWizard._get_form_data: the profile made from the form's inputs
FormData(db_type, username, password, dbname_input, auth_source_input, sid_radio, oracle_value_input) ==
  LET oracle_value == IF oracle_value_input # "" THEN oracle_value_input ELSE "ORCL"
  IN [db_type |-> db_type, host |-> "h", port |-> 1, username |-> username,
      password |-> password,
      database |-> IF db_type \in {"mysql", "mariadb", "sqlserver"} THEN dbname_input
                   ELSE IF db_type = "oracle" THEN oracle_value
                   ELSE "",
      auth_source |-> IF db_type = "mongodb"
                        THEN (IF auth_source_input # "" THEN auth_source_input ELSE "admin")
                        ELSE "",
      oracle_mode |-> IF db_type = "oracle"
                        THEN (IF sid_radio THEN "sid" ELSE "service_name")
                        ELSE "",
      oracle_value |-> IF db_type = "oracle" THEN oracle_value ELSE ""]

\* the profiles the wizard can store for the supported families
StoredProfiles ==
  {FormData(f, u, pw, db, au, sid, ov) :
     f \in SupportedFamilies, u \in {"", "u"}, pw \in {"", "p@ss"}, db \in {"", "db1"},
     au \in {"", "ops"}, sid \in BOOLEAN, ov \in {"", "XE"}}

\* _test_mongodb_connection: the uri handed to MongoClient
ProbeMongoUri(profile) ==
  IF profile.username # "" /\ profile.password # ""
    THEN "mongodb://" \o profile.username \o ":" \o profile.password \o "@" \o profile.host
           \o ":" \o IntStr(profile.port) \o "/?authSource=" \o profile.auth_source
    ELSE "mongodb://" \o profile.host \o ":" \o IntStr(profile.port)

\* DBOpsWorker._execute_mongodb: the uri handed to MongoClient
WorkerMongoUri(profile) ==
  IF profile.username # "" /\ profile.password # ""
    THEN "mongodb://" \o profile.username \o ":" \o profile.password \o "@" \o profile.host
           \o ":" \o IntStr(profile.port) \o "/" \o profile.database
    ELSE "mongodb://" \o profile.host \o ":" \o IntStr(profile.port) \o "/" \o profile.database

\* test_db_connection: what the probe connects to
ProbeTargetOf(profile) ==
  IF profile.db_type = "mongodb" THEN Some(ProbeMongoUri(profile))
  ELSE ProbeBuildConnectionString(profile)

\* DBOpsWorker.run: what the operation worker connects to
WorkerTargetOf(profile) ==
  IF profile.db_type = "mongodb" THEN Some(WorkerMongoUri(profile))
  ELSE BuildConnectionString(profile)

ProbeDerive ==
  /\ cprofile # None
  /\ probeTarget = None
  /\ probeTarget' = ProbeTargetOf(cprofile[1])
  /\ UNCHANGED <<workerVars, slotVars, pumpVars, scriptVars, dashVars, storeVars, cprofile, workerTarget>>

WorkerDerive ==
  /\ cprofile # None
  /\ workerTarget = None
  /\ workerTarget' = WorkerTargetOf(cprofile[1])
  /\ UNCHANGED <<workerVars, slotVars, pumpVars, scriptVars, dashVars, storeVars, cprofile, probeTarget>>

ConnInit ==
  /\ kind = "DBTestWorker"
  /\ req = CHOOSE r \in Requests(kind) : TRUE
  /\ WorkerIdle
  /\ SlotIdle
  /\ PumpIdle
  /\ ScriptIdle
  /\ DashIdle
  /\ StoreIdle
  /\ \E profile \in StoredProfiles : cprofile = Some(profile)
  /\ probeTarget = None
  /\ workerTarget = None

ConnNext == ProbeDerive \/ WorkerDerive

ConnSpec == ConnInit /\ [][ConnNext]_vars

----------------------------------------------------------------------------
(* Properties *)

EventsOf(t) == {i \in 1..Len(events) : events[i].t = t}
CountOf(t) == Cardinality(EventsOf(t))
LastEvent == events[Len(events)]

C2_OneTerminalEvent ==
  (kind = "DBOpsWorker" /\ pc = "done") =>
    CountOf("result") + CountOf("error") + CountOf("cancelled") = 1

\* C3: CommandWorker with shell=True on a command whose executable does not
\* exist ends with exactly one error event and finished(-1).
C3_MissingExecutable ==
  (kind = "CommandWorker" /\ req.shell /\ req.exe = "missing" /\ pc = "done") =>
    /\ CountOf("error") = 1
    /\ LastEvent.t = "finished" /\ LastEvent.a = Sentinel

\* C4: a process worker stopped while its child was running ends with exactly
\* one terminal event, and that event carries the cancelled sentinel -1 and
\* not the status of the killed child.
C4_CancelledTerminal ==
  (/\ kind \in ProcessKinds
   /\ pc = "done"
   /\ stopMark # None
   /\ stopMark[1].at \in {"loop", "readline"}) =>
    /\ CountOf("finished") = 1
    /\ LastEvent.a = Sentinel
    /\ CountOf("error") = 0

\* C5: once stop() has been called on a started process worker, the run ends
\* (terminal and finished events emitted), also for a command that never ends
\* by itself and wherever run() was when stop() came.
C5_StopAlwaysEnds ==
  (kind \in ProcessKinds /\ stopCalls > 0) ~> (pc = "done")

\* C6: in every slot at most one worker is executing at any moment.
C6_OneWorkerPerSlot == Cardinality({w \in Workers : Executing(w)}) <= 1

\* C7: after stop() has been called on a DBOpsWorker, it emits no result and
\* no error event, only finished.
C7_NoDeliveryAfterStop ==
  (kind = "DBOpsWorker" /\ stopMark # None) =>
    \A i \in (stopMark[1].n + 1)..Len(events) : events[i].t = "finished"

\* the category of section 7 of the design an error message of _parse_error
\* falls in
Taxonomy(cls) ==
  CASE cls \in {"timeout", "connect"} -> "connectivity-error"
    [] cls = "auth" -> "auth-error"
    [] cls \in {"nodb", "ora-00942", "object"} -> "object-error"
    [] cls = "ora-01031" -> "permission-error"
    [] cls = "syntax" -> "syntax-error"
    [] OTHER -> "generic-execution-error"

\* C8: a DBOpsWorker run on a profile of an unsupported family makes no
\* network attempt and ends with one error event, a configuration error.
C8_UnsupportedFamily ==
  (kind = "DBOpsWorker" /\ req.profile.db_type \notin SupportedFamilies /\ req.deps) =>
    /\ netAttempts = 0
    /\ pc = "done" =>
         /\ CountOf("error") = 1
         /\ \A i \in EventsOf("error") : Taxonomy(events[i].a.cls) = "configuration-error"

\* the shape a payload has: a row/column matrix is a table, a concatenated
\* string is text, a serialized document is a document
ShapeOfPayload(p) ==
  CASE p.form = "matrix" -> "table"
    [] p.form = "text" -> "text"
    [] p.form = "json" -> "document"

\* C9: the payload of every success result of DBOpsWorker has the shape of
\* the tag emitted with it, and that tag is the declared shape.
C9_PayloadMatchesShape ==
  kind = "DBOpsWorker" =>
    \A i \in EventsOf("result") :
      events[i].a = req.resultType /\ ShapeOfPayload(events[i].b.payload) = events[i].a

\* C10: no exception leaves run(): a failure inside run() is caught and, in a
\* run that nobody stopped, reported by an error event before finished.
C10_NoEscape ==
  /\ "run" \notin escaped
  /\ (pc = "done" /\ exc # NoExc /\ stopCalls = 0) =>
       /\ CountOf("error") >= 1
       /\ LastEvent.t = "finished"

----------------------------------------------------------------------------
(* The child's output against the progress events *)

\* what the child has written to its stdout so far
Written ==
  IF childState = "none" THEN <<>>
  ELSE SubSeq(req.script, 1, Len(req.script) - Len(toWrite))

\* the progress events that carry child output (not the worker's own lines)
ChildEvents == SelectSeq(events, LAMBDA ev : ev.t = "output" /\ ev.b \in {"loop", "drain"})
ChildTexts == [i \in 1..Len(ChildEvents) |-> ChildEvents[i].a]

\* a line without its trailing terminators
TrimTerminators(l) == RStrip(l, {"\r", "\n"})

\* the non-empty lines of some output, terminators trimmed, in order
NonEmptyLines(ws) ==
  SelectSeq([i \in 1..Len(ws) |-> TrimTerminators(ws[i])], LAMBDA l : l # "")

\* C14: a process worker emits no progress event for child output that
\* consists solely of line terminators, in the poll loop or in the final
\* drain: no progress event is empty or made of terminators, and there are
\* never more progress events than lines with content written so far.
C14_NoEventForTerminators ==
  kind \in ProcessKinds =>
    /\ \A i \in 1..Len(ChildTexts) : TrimTerminators(ChildTexts[i]) # ""
    /\ Len(ChildTexts) <= Len(NonEmptyLines(Written))

\* a blank line was read by the poll loop before a line with content, and
\* only the latter produced an event
C14_Witness ==
  /\ kind \in ProcessKinds
  /\ pc = "done"
  /\ Written = <<"\r\n", "x\n">>
  /\ ChildEvents = <<Ev("output", "x", "loop")>>

\* C15: at the end of a run that spawned its child, the progress events are
\* exactly the child's non-empty output lines, in the order written, each
\* once, terminators trimmed.
C15_EventsAreTheLines ==
  (kind \in ProcessKinds /\ pc = "done" /\ childState # "none") =>
    ChildTexts = NonEmptyLines(Written)

\* C16: after stop() has set the flag of a process worker, at most one
\* further output line is delivered as a progress event.
C16_OneLineAfterStop ==
  (kind \in ProcessKinds /\ stopMark # None) =>
    Cardinality({i \in 1..Len(events) :
                   /\ i > stopMark[1].n
                   /\ events[i].t = "output"
                   /\ events[i].b \in {"loop", "drain"}}) <= 1

----------------------------------------------------------------------------
(* The data pump invocation *)

\* the connect string with masked_pwd = f"{username}/******@" in place of
\* the credential
MaskedConnStr(cfg) ==
  cfg.username \o "/******@//" \o cfg.host \o ":" \o IntStr(cfg.port) \o "/" \o cfg.service_name

\* C18: the invocation line of a descriptor with a non-empty password is the
\* line of every descriptor that differs from it only in a non-empty
\* password, and it is the command with the credential replaced by the
\* six-character mask and everything else as built.
C18_MaskLengthInvariant ==
  (ppc = "announced" /\ args.db_config.password # "") =>
    /\ \A pw \in Passwords \ {""} :
         InvocationLine(operation[1], [args EXCEPT !.db_config.password = pw]) = shown[1]
    /\ shown[1] = InvocationLabel \o
         Join(<<cmd[1], MaskedConnStr(args.db_config)>> \o SubSeq(cmd, 3, Len(cmd)), " ")

\* the line of a descriptor with a six-character password has been emitted
C18_Witness ==
  /\ ppc = "announced"
  /\ args.db_config.password = "s3cret"
  /\ ~Contains(shown[1], "s3cret")

\* the flags _build_command can add for an operation, with their options
DefaultsOf(op) ==
  IF op = "expdp" THEN {[opt |-> "full", flag |-> "full=y"]}
  ELSE {[opt |-> "full", flag |-> "full=y"],
        [opt |-> "table_exists_action", flag |-> "table_exists_action=replace"]}

\* C19: a default flag is in the argument vector if and only if no
\* additional parameter is a flag for the same option; when the caller gives
\* each option at most once, the vector has exactly one flag for each option
\* that has a default.
C19_DefaultsIffNotSupplied ==
  ppc \in {"built", "announced"} =>
    LET params == args.additional_params
        \* the option a flag sets: the text before its "="
        OptionOf(flag) == Split(flag, "=")[1]
        Supplied(opt) == {i \in 1..Len(params) : OptionOf(params[i]) = opt}
        Added(flag) == \E i \in 6..(Len(cmd) - Len(params)) : cmd[i] = flag
        FlagsFor(opt) == {i \in 3..Len(cmd) : OptionOf(cmd[i]) = opt}
    IN \A d \in DefaultsOf(operation[1]) :
         /\ Added(d.flag) <=> (Supplied(d.opt) = {})
         /\ Cardinality(Supplied(d.opt)) <= 1 => Cardinality(FlagsFor(d.opt)) = 1

\* C20 as stated: every mode value other than 'expdp' and 'impdp' is
\* rejected at construction.
C20_OnlyExactModes ==
  (ppc \notin {"none", "new", "unavailable"} /\ args.operation \notin Modes) => ppc = "rejected"

\* C20: construction is rejected exactly for the mode values whose lower-case
\* form is neither 'expdp' nor 'impdp'; a constructed worker holds one of
\* the two modes, and the command it builds is that program's.
C20_OnlyModesAfterLowering ==
  /\ ppc = "rejected" <=>
       (ppc \notin {"none", "new", "unavailable"} /\ Lower(args.operation) \notin Modes)
  /\ ppc \in {"constructed", "built", "announced"} => operation[1] \in Modes
  /\ ppc \in {"built", "announced"} => cmd[1] = operation[1]

\* a constructor call with another mode has raised
C20_Witness ==
  /\ ppc = "rejected"
  /\ args.operation = "export"
  /\ cmd = <<>>

----------------------------------------------------------------------------
(* Cancellation, status and handles *)

\* ConsoleWidget._on_finished: how the console renders an exit code
OnFinishedStyle(exit_code) ==
  IF exit_code = 0 THEN "success"
  ELSE IF exit_code = Sentinel THEN "warning"
  ELSE "error"

\* C11: a process run that ended because stop() killed its child emits no
\* error event, no failure line, and a terminal status that the console does
\* not render as an error.
C11_CancelNotAnError ==
  (/\ kind \in ProcessKinds
   /\ pc = "done"
   /\ stopMark # None
   /\ stopMark[1].at \in {"loop", "readline"}
   /\ childStatus \in {TermStatus, KillStatus}) =>
    /\ CountOf("error") = 0
    /\ \A i \in 1..Len(events) : events[i] # Ev("output", "failed", "worker")
    /\ LastEvent.t = "finished" /\ OnFinishedStyle(LastEvent.a) # "error"

\* C12: at the end of a process run, (a) if it was not stopped and its child
\* was spawned, the terminal status is the child's exit status; (b) the
\* sentinel -1 is the status only after executable-not-found, not-permitted
\* or a stop; (c) a sentinel status comes with exactly one error event; (d)
\* the data pump's success flag is true exactly when the status is 0.
C12_StatusAndSentinel ==
  (kind \in ProcessKinds /\ pc = "done") =>
    /\ LastEvent.t = "finished"
    /\ (stopMark = None /\ childState # "none") => LastEvent.a = childStatus
    /\ LastEvent.a = Sentinel =>
         /\ exc.type \in {"FileNotFoundError", "PermissionError"} \/ stopMark # None
         /\ CountOf("error") = 1
    /\ kind = "DataPumpWorker" => (LastEvent.b = TRUE <=> LastEvent.a = 0)

\* C13: when run() has ended, the child it spawned is not running and no
\* database client or connection it opened is still open.
C13_HandlesReleased ==
  pc = "done" => (childState # "alive" /\ openHandles = 0)

\* C17: a worker instance is single-use: run() is entered at most once on
\* it; a start() on an instance that has completed executes no second run.
C17_SingleUse == runs <= 1

----------------------------------------------------------------------------
(* Result shapes of the row-oriented path *)

\* the worker holds the result of a statement that returned a result set
HasRows(shape) ==
  /\ kind = "DBOpsWorker"
  /\ req.resultType = shape
  /\ req.backend.o = "rows"
  /\ result # None

\* C21: in table shape a NULL cell is the empty string; in text shape a NULL
\* in a row of two or more columns is the field "NULL" between separators.
C21_NullRendering ==
  /\ HasRows("table") =>
       \A i \in 1..Len(req.backend.rows) : \A j \in 1..Len(req.backend.rows[i]) :
         req.backend.rows[i][j] = None => result[1].payload.v[i][j] = ""
  /\ (HasRows("text") /\ req.backend.rows # <<>>) =>
       \A i \in 1..Len(req.backend.rows) : \A j \in 1..Len(req.backend.rows[i]) :
         (Len(req.backend.rows[i]) >= 2 /\ req.backend.rows[i][j] = None) =>
           Split(Split(result[1].payload.v, "\n")[i], " | ")[j] = "NULL"

\* a table result with a NULL cell has been delivered
C21_Witness ==
  /\ kind = "DBOpsWorker"
  /\ req.backend.rows = << <<None, Some("A")>> >>
  /\ \E i \in 1..Len(events) :
       events[i].t = "result" /\ events[i].a = "table" /\ events[i].b.payload.v = << <<"", "A">> >>

\* C22 as stated: a cell longer than the budget of 1000 becomes its first
\* 1000 characters followed by the ellipsis; other cells are unchanged.
C22_BudgetPlusEllipsis ==
  HasRows("table") =>
    \A i \in 1..Len(req.backend.rows) : \A j \in 1..Len(req.backend.rows[i]) :
      LET cell == req.backend.rows[i][j]
      IN cell # None =>
           result[1].payload.v[i][j] =
             IF Len(cell[1]) > 1000 THEN SubSeq(cell[1], 1, 1000) \o "..." ELSE cell[1]

\* C22: a cell longer than 1000 characters becomes its first 997 characters
\* followed by the three-character ellipsis, 1000 characters in all; a cell
\* of at most 1000 characters is unchanged.
C22_CutToBudget ==
  HasRows("table") =>
    \A i \in 1..Len(req.backend.rows) : \A j \in 1..Len(req.backend.rows[i]) :
      LET cell == req.backend.rows[i][j]
          out == result[1].payload.v[i][j]
      IN cell # None =>
           IF Len(cell[1]) > 1000
             THEN out = SubSeq(cell[1], 1, 997) \o "..." /\ Len(out) = 1000
             ELSE out = cell[1]

\* a table result with a cell of 1000 and a cell of 1001 characters
C22_Witness ==
  /\ HasRows("table")
  /\ req.backend.rows = << <<Some(LongCells[1]), Some(LongCells[2])>> >>
  /\ Len(LongCells[1]) = 1000
  /\ Len(LongCells[2]) = 1001
  /\ Len(result[1].payload.v[1][2]) = 1000
  /\ \E i \in 1..Len(events) : events[i].t = "result"

\* C23: a text result of n >= 1 single-column rows is the rows' values in
\* row order, separated by newlines, and its row_count is n.
C23_TextRowsJoined ==
  (/\ HasRows("text")
   /\ req.backend.rows # <<>>
   /\ \A i \in 1..Len(req.backend.rows) :
        Len(req.backend.rows[i]) = 1 /\ req.backend.rows[i][1] # None) =>
    /\ Split(result[1].payload.v, "\n") =
         [i \in 1..Len(req.backend.rows) |-> req.backend.rows[i][1][1]]
    /\ result[1].row_count = Len(req.backend.rows)

\* rows ["A", "B"] delivered as "A\nB" with row_count 2
C23_Witness ==
  /\ kind = "DBOpsWorker"
  /\ req.backend.rows = << <<Some("A")>>, <<Some("B")>> >>
  /\ \E i \in 1..Len(events) :
       /\ events[i].t = "result" /\ events[i].a = "text"
       /\ events[i].b.payload.v = "A\nB" /\ events[i].b.row_count = 2

\* C30: the readiness probe answers ok exactly when both expdp and impdp are
\* on the path; otherwise it answers not-ok with a non-empty explanation that
\* names each missing executable, no worker is constructed after it, and no
\* child process exists.
C30_ReadinessProbe ==
  ready # None =>
    /\ ready[1].ok <=> OracleTools \subseteq onPath
    /\ ~ready[1].ok =>
         /\ ready[1].msg # ""
         /\ \A tool \in OracleTools \ onPath : Contains(ready[1].msg, tool)
         /\ ppc = "unavailable" /\ operation = None /\ cmd = <<>>
    /\ childState = "none" /\ pc = "idle"

\* the probe has answered not-ok with only impdp missing
C30_Witness ==
  /\ ready # None
  /\ onPath = {"expdp"}
  /\ ready[1] = [ok |-> FALSE, msg |-> "impdp not found"]
  /\ ppc = "unavailable"

\* C24: for every stored profile of a supported family, the probe and the
\* operation worker derive the same connection target.
C24_SameTarget ==
  (probeTarget # None /\ workerTarget # None) => probeTarget = workerTarget

\* C25: a probe of a profile whose family is not one of the five supported
\* ones makes no network attempt, and ends in a failure.
C25_UnsupportedProbeNoNetwork ==
  (kind = "DBTestWorker" /\ req.profile.db_type \notin SupportedFamilies) =>
    /\ netAttempts = 0
    /\ (pc = "done" /\ stopMark = None) => CountOf("error") = 1

----------------------------------------------------------------------------
(* The operation registry and the dashboard's requests *)

\* SQLRegistry._sql_map["mongodb"]: each operation's command object, named
\* by its command key
MongoRegistry ==
  [processlist |-> "currentOp", oplog |-> "collStats", replica_status |-> "replSetGetStatus",
   server_status |-> "serverStatus", slow_query |-> "find"]

\* SQLRegistry._sql_map for the SQL families: each operation's result_type
SqlRegistry ==
  [mysql |-> [deadlock |-> "text", processlist |-> "table", binlog |-> "table",
              variables |-> "table", replication |-> "table", slow_query |-> "table",
              table_stats |-> "table"],
   mariadb |-> [deadlock |-> "text", processlist |-> "table", binlog |-> "table",
                variables |-> "table", replication |-> "table", slow_query |-> "table",
                table_stats |-> "table"],
   oracle |-> [deadlock |-> "table", processlist |-> "table", tablespaces |-> "table",
               awr |-> "table", slow_query |-> "table", lock_wait |-> "table"],
   sqlserver |-> [deadlock |-> "table", processlist |-> "table", dmv |-> "table",
                  slow_query |-> "table", lock_info |-> "table"]]

\* SQLRegistry.get_sql
GetSql(db_type, operation_id) ==
  LET family == Lower(db_type)
      operation_key == Lower(operation_id)
  IN IF family = "mongodb" /\ operation_key \in DOMAIN MongoRegistry
       THEN Some([sql |-> "", command |-> Some(MongoRegistry[operation_key]),
                  result_type |-> "document"])
     ELSE IF family \in DOMAIN SqlRegistry /\ operation_key \in DOMAIN SqlRegistry[family]
       THEN Some([sql |-> "stmt", command |-> None,
                  result_type |-> SqlRegistry[family][operation_key]])
     ELSE None

\* DatabaseOpsWidget._on_operation_click: the worker it constructs
OperationRequest(profile, operation_id, backend) ==
  LET sql_def == GetSql(profile.db_type, operation_id)[1]
      sql_text == sql_def.sql
      result_type == sql_def.result_type
  IN DbReq(profile.db_type, result_type, sql_text, TRUE, backend)

\* C26: a document-family operation started from the dashboard, on a backend
\* that answers the command and with no stop, ends with the response
\* reported as a document result and with no error.
C26_DocumentOperation ==
  \A operation_id \in DOMAIN MongoRegistry :
    (/\ kind = "DBOpsWorker"
     /\ req = OperationRequest(Profile("mongodb"), operation_id, Backend("doc", 2, <<>>, {}))
     /\ pc = "done"
     /\ stopMark = None) =>
      /\ \E i \in 1..Len(events) :
           events[i].t = "result" /\ events[i].a = "document" /\ events[i].b.payload.form = "json"
      /\ CountOf("error") = 0

\* str(error) of the exceptions handed to _parse_error: empty, short, and
\* longer than the 500 characters the last branch keeps
ErrorTexts == {"", "driver diagnostic", Repeat("e", 501)}

\* the substrings _parse_error looks for in the lowered text
ErrorMarks ==
  {"timeout", "access denied", "login failed", "unknown host", "could not connect",
   "unknown database", "database does not exist", "ora-00942", "ora-01031", "ora-01555",
   "ora-00054", "syntax", "performance_schema", "invalid object name"}

\* every message _parse_error returns for these exceptions and families
ParseErrorMessages ==
  {ParseError(Exc("Exception", text, marks), f).msg :
     text \in ErrorTexts, marks \in {{}} \cup {{m} : m \in ErrorMarks}, f \in Families}

\* C28: the message on the failure path is never empty: _parse_error returns
\* a non-empty message for every exception and family, every error event of
\* the operations worker and of the probe carries a non-empty message, and
\* so does the probe's failure result.
C28_MessageNeverEmpty ==
  /\ "" \notin ParseErrorMessages
  /\ kind \in {"DBOpsWorker", "DBTestWorker"} =>
       \A i \in 1..Len(events) : events[i].t = "error" => events[i].a.msg # ""
  /\ (kind = "DBTestWorker" /\ result # None /\ ~result[1].success) =>
       result[1].message # ""

C28_Witness ==
  /\ kind = "DBOpsWorker"
  /\ pc = "done"
  /\ \E i \in 1..Len(events) :
       events[i].t = "error" /\ events[i].a.cls = "generic" /\ events[i].a.msg # ""

----------------------------------------------------------------------------
(* ScriptWorker: construction, _build_command, and the run of the          *)
(* CommandWorker it is                                                     *)

\* script paths as the caller writes them
ScriptPaths ==
  {"run.BAT", "go.cmd", "a.tar.Ps1", "./x.py", "s.vbs", "prog.exe", "dir.d/tool", ".profile"}

ArgLists == {<<>>, <<"-v">>, <<"a", "b">>}

\* s.rfind(c), counted from 1; 0 when c does not occur
RFind(s, c) ==
  LET hits == {i \in 1..Len(s) : Ch(s, i) = c}
  IN IF hits = {} THEN 0 ELSE CHOOSE i \in hits : \A j \in hits : j <= i

\* str(Path(p)): a leading "." component is dropped
PathStr(p) ==
  IF Len(p) > 2 /\ SubSeq(p, 1, 2) = "./" THEN SubSeq(p, 3, Len(p)) ELSE p

\* Path(p).name: the final component
PathName(p) ==
  LET q == PathStr(p)
  IN SubSeq(q, RFind(q, "/") + 1, Len(q))

\* Path(p).suffix: from the last dot of the name, unless the dot is the
\* name's first or last character
Suffix(p) ==
  LET name == PathName(p)
      i == RFind(name, ".")
  IN IF 1 < i /\ i < Len(name) THEN SubSeq(name, i, Len(name)) ELSE ""

\* the extension compared as written
SuffixAsWritten(p) == Suffix(p)

\* suffix = self.script_path.suffix.lower()
LoweredSuffix(p) == Lower(Suffix(p))

\* ScriptWorker._build_command
BuildScriptCommand(script_path, script_args) ==
  LET suffix == LoweredSuffix(script_path)
      script_str == PathStr(script_path)
      args_str == Join(script_args, " ")
  IN IF suffix \in {".bat", ".cmd"}
       THEN "cmd /c \"" \o script_str \o "\" " \o args_str
     ELSE IF suffix = ".ps1"
       THEN "powershell -ExecutionPolicy Bypass -File \"" \o script_str \o "\" " \o args_str
     ELSE IF suffix = ".py"
       THEN "python \"" \o script_str \o "\" " \o args_str
     ELSE IF suffix = ".vbs"
       THEN "cscript //nologo \"" \o script_str \o "\" " \o args_str
     ELSE "\"" \o script_str \o "\" " \o args_str

\* CommandWorker.__init__: the fields it keeps of its arguments
CommandWorkerInit(command, shell) == [command |-> command, shell |-> shell]

\* the existence test skipped
ScriptPathExistsAny(a) == TRUE

\* self.script_path.exists()
ScriptPathExists(a) == a.exists

\* ScriptWorker.__init__
ConstructScript ==
  /\ sstate = "none"
  /\ sargs # None
  /\ IF ~ScriptPathExists(sargs[1])
       THEN /\ sstate' = "FileNotFoundError"
            /\ UNCHANGED scommand
       ELSE /\ scommand' = Some(CommandWorkerInit(
                             BuildScriptCommand(sargs[1].script_path, sargs[1].args), TRUE))
            /\ sstate' = "constructed"
  /\ UNCHANGED <<workerVars, slotVars, pumpVars, connVars, dashVars, storeVars, sargs>>

\* QThread.start() of the worker the constructor returned; without a worker
\* there is nothing to start
ScriptStart ==
  /\ sstate = "constructed"
  /\ Start

ScriptReqs ==
  {r \in RunnableReqs({TRUE}) : r.script = <<"x\n">> /\ r.selfExit = Some(0) /\ ~r.ignoresTerm}
  \cup FailingReqs({TRUE})

ScriptInit ==
  /\ kind = "CommandWorker"
  /\ req \in ScriptReqs
  /\ WorkerIdle
  /\ SlotIdle
  /\ PumpIdle
  /\ ConnIdle
  /\ DashIdle
  /\ StoreIdle
  /\ \E p \in ScriptPaths, a \in ArgLists, x \in BOOLEAN :
       sargs = Some([script_path |-> p, args |-> a, exists |-> x])
  /\ sstate = "none"
  /\ scommand = None

ScriptNext ==
  \/ ConstructScript
  \/ ScriptStart
  \/ RunSetFlag \/ Spawn \/ LoopCheck \/ Readline \/ Drain
  \/ Finish \/ ProcExcept \/ ProcFinally
  \/ ChildWrite \/ ChildExit

ScriptSpec == ScriptInit /\ [][ScriptNext]_vars

\* C27: constructing the script worker with a path that does not exist
\* fails at once with an error: no worker is constructed, no process is
\* spawned, no run is started and no event is emitted.
C27_MissingScriptRejected ==
  (sargs # None /\ ~sargs[1].exists) =>
    /\ sstate \in {"none", "FileNotFoundError"}
    /\ scommand = None
    /\ pc = "idle" /\ runs = 0
    /\ process = "None" /\ childState = "none"
    /\ events = <<>>

C27_Witness ==
  /\ sargs # None /\ ~sargs[1].exists
  /\ sstate = "FileNotFoundError"

\* the interpreter prefix of each recognised extension
InterpreterOf(ext) ==
  CASE ext \in {".bat", ".cmd"} -> "cmd /c "
    [] ext = ".ps1" -> "powershell -ExecutionPolicy Bypass -File "
    [] ext = ".py" -> "python "
    [] ext = ".vbs" -> "cscript //nologo "
    [] OTHER -> ""

\* C29: the command line is chosen by the extension whatever its case, an
\* unrecognised extension runs the file itself; the quoted path is followed
\* by the arguments in their order; the worker keeps the command unchanged
\* and runs it through the shell.
C29_CommandByExtension ==
  sstate = "constructed" =>
    LET a == sargs[1]
        command == scommand[1].command
        expected == InterpreterOf(Lower(Suffix(a.script_path)))
                      \o "\"" \o PathStr(a.script_path) \o "\""
    IN /\ Len(command) >= Len(expected)
       /\ SubSeq(command, 1, Len(expected)) = expected
       /\ Split(Strip(SubSeq(command, Len(expected) + 1, Len(command))), " ")
            = (IF a.args = <<>> THEN <<"">> ELSE a.args)
       /\ scommand[1].shell

C29_Witness ==
  /\ sstate = "constructed"
  /\ sargs[1].script_path = "run.BAT"
  /\ sargs[1].args = <<"a", "b">>
  /\ scommand[1].command = "cmd /c \"run.BAT\" a b"

\* C31: stop() on a process worker never raises into its caller, whatever
\* the interleaving with run(), also when run() reaches its finally block
\* and clears self._process between stop()'s checks and its calls.
C31_StopNeverRaises ==
  kind \in ProcessKinds => "stop" \notin escaped

\* C32: when a process worker emits its terminal event on the path without
\* an exception, the status is the child's collected exit status: the
\* returncode it reads has been set by a poll or a wait, also after a stop
\* that ended the loop without a poll or killed the child without a wait.
C32_StatusWasCollected ==
  kind \in ProcessKinds =>
    /\ pc = "finish" => returncode # None
    /\ (pc = "finally" /\ exc = NoExc) =>
         /\ returncode = Some(childStatus)
         /\ LastEvent.t = "finished" /\ LastEvent.a = childStatus

\* the slot's current worker has been started and its finished event has not
\* been delivered yet
InFlight ==
  /\ cur # 0
  /\ \/ wpc[cur] # "done"
     \/ \E i \in 1..Len(queue) : queue[i].w = cur /\ queue[i].sig = "finished"

\* C33: while the slot's newest worker is in flight, the delivery of an event
\* of a superseded worker neither resets the executing indicator nor hands
\* over a result or error.
C33_NoStaleEventActedOn ==
  [][(Deliver /\ InFlight /\ Head(queue).w # cur) =>
       (uiExecuting' = uiExecuting /\ Head(queue).sig # "terminal")]_vars

\* the events that report a run's outcome
OutcomeEvents == {"select_result", "execute_result", "error"}

\* C34: a finished run of SQLWorker has emitted exactly one outcome event
\* (select result, execute result or error) and then exactly one finished
\* event; no error event follows a success event, also when handling the
\* result or the commit after it fails.
C34_OneOutcomeThenFinished ==
  (kind = "SQLWorker" /\ pc = "done") =>
    /\ Cardinality({i \in 1..Len(events) : events[i].t \in OutcomeEvents}) = 1
    /\ CountOf("finished") = 1
    /\ LastEvent.t = "finished"
    /\ \A i, j \in 1..Len(events) :
         (i < j /\ events[i].t \in {"select_result", "execute_result"}) => events[j].t # "error"

RECURSIVE LoopPathEvents(_)
\* the events of the poll loop when it reads these lines one by one
LoopPathEvents(lines) ==
  IF lines = <<>> THEN <<>>
  ELSE LoopLineEvents(Head(lines)) \o LoopPathEvents(Tail(lines))

\* the texts of a sequence of events
TextsOf(evs) == [i \in 1..Len(evs) |-> evs[i].a]

\* C35: the progress events do not depend on how the output is split between
\* the poll loop and the final drain: whatever the child has written and the
\* worker has not read yet gives the same events read line by line in the
\* loop as read at once by the drain.
C35_SamePathSameEvents ==
  (kind \in ProcessKinds /\ pc \in {"loop", "readline", "drain"}) =>
    TextsOf(LoopPathEvents(pipe)) = TextsOf(DrainEvents(pipe))

----------------------------------------------------------------------------
(* The operations dashboard: the buttons it offers and what a click does   *)

MaxClicks == 2

\* db_capabilities: the capability flags of each family
DbCapabilities ==
  [mysql |-> [deadlock |-> TRUE, binlog |-> TRUE, processlist |-> TRUE,
              performance_schema |-> TRUE, replication |-> TRUE, slow_query |-> TRUE,
              table_stats |-> TRUE, kill_session |-> TRUE, oracle_pump |-> FALSE,
              backup_logical |-> TRUE],
   mariadb |-> [deadlock |-> TRUE, binlog |-> TRUE, processlist |-> TRUE,
                performance_schema |-> TRUE, replication |-> TRUE, slow_query |-> TRUE,
                table_stats |-> TRUE, kill_session |-> TRUE, oracle_pump |-> FALSE,
                backup_logical |-> TRUE],
   sqlserver |-> [deadlock |-> TRUE, binlog |-> FALSE, processlist |-> TRUE,
                  performance_schema |-> FALSE, replication |-> TRUE, slow_query |-> TRUE,
                  table_stats |-> TRUE, kill_session |-> TRUE, oracle_pump |-> FALSE,
                  backup_logical |-> TRUE, dmv |-> TRUE],
   oracle |-> [deadlock |-> TRUE, binlog |-> FALSE, processlist |-> TRUE,
               performance_schema |-> FALSE, replication |-> TRUE, slow_query |-> TRUE,
               table_stats |-> TRUE, kill_session |-> TRUE, oracle_pump |-> TRUE,
               backup_logical |-> TRUE, awr |-> TRUE, tablespace |-> TRUE],
   mongodb |-> [deadlock |-> FALSE, binlog |-> FALSE, processlist |-> TRUE,
                performance_schema |-> FALSE, replication |-> TRUE, slow_query |-> TRUE,
                table_stats |-> TRUE, kill_session |-> TRUE, oracle_pump |-> FALSE,
                backup_logical |-> TRUE, oplog |-> TRUE, replica_status |-> TRUE]]

\* operation_definitions: the operations that have a button definition
OperationDefinitions ==
  {"deadlock", "binlog", "processlist", "replication", "slow_query", "table_stats",
   "kill_session", "oracle_pump", "awr", "tablespace", "oplog", "replica_status", "dmv"}

\* get_db_capabilities: db_capabilities.get(db_type.lower(), {})
GetDbCapabilities(db_type) ==
  IF Lower(db_type) \in DOMAIN DbCapabilities THEN DbCapabilities[Lower(db_type)] ELSE <<>>

\* get_supported_operations: the ids of the definitions it returns
GetSupportedOperations(db_type) ==
  LET caps == GetDbCapabilities(db_type)
  IN {op_key \in DOMAIN caps : caps[op_key] /\ op_key \in OperationDefinitions}

\* the db_type of the profiles a user can select
DashFamilies == SupportedFamilies \cup {"postgresql"}

\* DatabaseOpsWidget._on_connection_changed
SelectConnection ==
  /\ dbType = None
  /\ \E t \in DashFamilies : dbType' = Some(t)
  /\ UNCHANGED <<workerVars, slotVars, pumpVars, connVars, scriptVars, storeVars, clicks>>

\* a click on one of the buttons _update_operation_buttons made, handled by
\* _on_operation_click: the warning box and return, or a worker
ClickOperation ==
  /\ dbType # None
  /\ Len(clicks) < MaxClicks
  /\ \E operation_id \in GetSupportedOperations(dbType[1]) :
       clicks' = Append(clicks,
                   [op |-> operation_id,
                    did |-> IF GetSql(dbType[1], operation_id) = None
                              THEN "rejected" ELSE "started"])
  /\ UNCHANGED <<workerVars, slotVars, pumpVars, connVars, scriptVars, storeVars, dbType>>

DashInit ==
  /\ kind = "DBOpsWorker"
  /\ req = CHOOSE r \in Requests(kind) : TRUE
  /\ WorkerIdle
  /\ SlotIdle
  /\ PumpIdle
  /\ ConnIdle
  /\ ScriptIdle
  /\ StoreIdle
  /\ DashIdle

DashNext == SelectConnection \/ ClickOperation

DashSpec == DashInit /\ [][DashNext]_vars

\* C36: every operation the dashboard offers for the selected family
\* resolves to a descriptor through get_sql, and a click on an offered
\* operation starts a worker instead of being rejected as unsupported.
C36_OfferedResolves ==
  /\ dbType # None =>
       \A operation_id \in GetSupportedOperations(dbType[1]) :
         GetSql(dbType[1], operation_id) # None
  /\ \A i \in 1..Len(clicks) : clicks[i].did = "started"

----------------------------------------------------------------------------
(* ConnectionManager: save_profile and delete_profile on self._profiles    *)

MaxCalls == 3

ProfileNames == {"A", "B"}

\* an id the caller chooses for a new profile
CallerId == "a"

\* str(uuid.uuid4())[:8]: an id no earlier call has generated
Uuid(n) == "u" \o IntStr(n)

\* the for loop of save_profile: the first profile with this name or, when a
\* profile_id is given, with this id; 0 when the loop ends without a break
ExistingIdx(ps, name, profile_id) ==
  LET hits == {idx \in 1..Len(ps) :
                 \/ ps[idx].name = name
                 \/ (profile_id # None /\ ps[idx].id = profile_id[1])}
  IN IF hits = {} THEN 0 ELSE CHOOSE idx \in hits : \A j \in hits : idx <= j

\* save_profile: self._profiles afterwards
SaveProfileOf(ps, name, db_type, profile_id, n) ==
  LET existing_idx == ExistingIdx(ps, name, profile_id)
      new_profile == [id |-> IF profile_id # None THEN profile_id[1] ELSE Uuid(n + 1),
                      name |-> name,
                      db_type |-> IF db_type \in SupportedFamilies THEN db_type ELSE "mysql"]
  IN IF existing_idx # 0 THEN [ps EXCEPT ![existing_idx] = new_profile]
     ELSE Append(ps, new_profile)

\* delete_profile: self._profiles afterwards
DeleteProfileOf(ps, name_or_id) ==
  SelectSeq(ps, LAMBDA q : q.name # name_or_id /\ q.id # name_or_id)

StoredIds == {profiles[i].id : i \in 1..Len(profiles)}

\* ConnectionManager.save_profile(name, ..., db_type, profile_id): the
\* profile_id is absent, the id of a stored profile, or one of the caller's
SaveProfile ==
  /\ calls < MaxCalls
  /\ calls' = calls + 1
  /\ \E name \in ProfileNames, db_type \in {"oracle", "redis"},
        profile_id \in {None} \cup {Some(x) : x \in StoredIds \cup {CallerId}} :
       /\ profiles' = SaveProfileOf(profiles, name, db_type, profile_id, uuids)
       /\ uuids' = IF profile_id = None THEN uuids + 1 ELSE uuids
  /\ UNCHANGED <<workerVars, slotVars, pumpVars, connVars, scriptVars, dashVars>>

\* ConnectionManager.delete_profile(name_or_id)
DeleteProfile ==
  /\ calls < MaxCalls
  /\ calls' = calls + 1
  /\ \E name_or_id \in ProfileNames \cup StoredIds \cup {CallerId} :
       profiles' = DeleteProfileOf(profiles, name_or_id)
  /\ UNCHANGED <<workerVars, slotVars, pumpVars, connVars, scriptVars, dashVars, uuids>>

\* a ConnectionManager whose configuration file does not exist yet
StoreInit ==
  /\ kind = "DBTestWorker"
  /\ req = CHOOSE r \in Requests(kind) : TRUE
  /\ WorkerIdle
  /\ SlotIdle
  /\ PumpIdle
  /\ ConnIdle
  /\ ScriptIdle
  /\ DashIdle
  /\ profiles = <<>>
  /\ uuids = 0
  /\ calls = 0

StoreNext == SaveProfile \/ DeleteProfile

StoreSpec == StoreInit /\ [][StoreNext]_vars

\* C37: after any sequence of save_profile and delete_profile calls on a
\* manager that starts empty, no two stored profiles share a name and no two
\* share an id.
C37_UniqueNamesAndIds ==
  \A i, j \in 1..Len(profiles) :
    i # j => (profiles[i].name # profiles[j].name /\ profiles[i].id # profiles[j].id)

====
